---- MODULE Spec2Model ----
(***************************************************************************)
(* Package resolution of the PARTS label generator: the outline registry   *)
(* (src/packages/outline_db.py) and the resolver (src/packages/resolve.py). *)
(*                                                                         *)
(* Python strings are sequences of one-character strings, so that strip,   *)
(* upper, lower, replace and split act on them as they do in the code.     *)
(* A dict is a function on its keys; an Optional[str] is a sequence of at  *)
(* most one element (<<>> is None).                                        *)
(***************************************************************************)
EXTENDS Integers, Sequences, FiniteSets, TLC

VARIABLES
  OUTLINES,          \* outline_db.OUTLINES: canonical id -> outline entry
  PACKAGE_ALIASES,   \* outline_db.PACKAGE_ALIASES: normalised key -> canonical id
  PACKAGE_VARIANTS,  \* outline_db.PACKAGE_VARIANTS: normalised key -> variant record
  phase,             \* how far the import-time seeding of outline_db has run
  regs,              \* registrations made one by one (RegSpec only)
  pc,                \* "idle", or "returned" after a resolve_package call
  raw_package,       \* argument of the last resolve_package call
  ids,               \* what _resolve_to_ids_and_overrides returned in that call
  result,            \* what resolve_package returned
  memo,              \* the first call of the probe string, its result, and
                     \* whether another string was resolved since
  FAMILY_DRAWERS,    \* registry.FAMILY_DRAWERS: family id -> drawer function
  canvas,            \* the ReportLab canvas the drawers draw on
  call               \* the last call of the package API: what was called,
                     \* with what, and what came of it

\* The variables of the drawing layer.
apivars == <<FAMILY_DRAWERS, canvas, call>>

vars == <<OUTLINES, PACKAGE_ALIASES, PACKAGE_VARIANTS, phase, regs, pc,
          raw_package, ids, result, memo, FAMILY_DRAWERS, canvas, call>>

(***************************************************************************)
(* Python built-ins the code relies on.                                    *)
(***************************************************************************)

EmptyDict == [k \in {} |-> k]

\* d[k] = v
dict_set(d, k, v) == (k :> v) @@ d

\* d.update(e)
dict_update(d, e) == e @@ d

LowerLetters ==
  <<"a","b","c","d","e","f","g","h","i","j","k","l","m",
    "n","o","p","q","r","s","t","u","v","w","x","y","z">>

UpperLetters ==
  <<"A","B","C","D","E","F","G","H","I","J","K","L","M",
    "N","O","P","Q","R","S","T","U","V","W","X","Y","Z">>

\* The characters str.strip() removes from both ends (space and tab stand for
\* all of Python's whitespace).
Whitespace == {" ", "\t"}

upper_char(c) ==
  IF \E i \in 1..Len(LowerLetters) : LowerLetters[i] = c
    THEN UpperLetters[CHOOSE i \in 1..Len(LowerLetters) : LowerLetters[i] = c]
    ELSE c

lower_char(c) ==
  IF \E i \in 1..Len(UpperLetters) : UpperLetters[i] = c
    THEN LowerLetters[CHOOSE i \in 1..Len(UpperLetters) : UpperLetters[i] = c]
    ELSE c

RECURSIVE str_map(_, _)
str_map(s, isUpper) ==
  IF s = <<>> THEN <<>>
  ELSE <<IF isUpper THEN upper_char(Head(s)) ELSE lower_char(Head(s))>>
         \o str_map(Tail(s), isUpper)

\* str.upper()
upper(s) == str_map(s, TRUE)

\* str.lower()
lower(s) == str_map(s, FALSE)

RECURSIVE lstrip(_)
lstrip(s) == IF s # <<>> /\ Head(s) \in Whitespace THEN lstrip(Tail(s)) ELSE s

RECURSIVE rstrip(_)
rstrip(s) ==
  IF s # <<>> /\ s[Len(s)] \in Whitespace
    THEN rstrip(SubSeq(s, 1, Len(s) - 1))
    ELSE s

\* str.strip()
strip(s) == rstrip(lstrip(s))

\* str.replace(c, "")
remove_char(s, c) == SelectSeq(s, LAMBDA x : x # c)

\* str.split(sep): always at least one part, empty parts kept
RECURSIVE split(_, _)
split(s, sep) ==
  IF \A i \in 1..Len(s) : s[i] # sep THEN <<s>>
  ELSE LET i == CHOOSE n \in 1..Len(s) :
                  s[n] = sep /\ \A j \in 1..(n - 1) : s[j] # sep
       IN  <<SubSeq(s, 1, i - 1)>> \o split(SubSeq(s, i + 1, Len(s)), sep)

(***************************************************************************)
(* Python floats: IEEE 754 binary64, round to nearest, ties to even.       *)
(* A non-negative float is [m, e] standing for m * 2^e, where m is 0 or a  *)
(* 53-bit integer (2^52 <= m < 2^53). m is held in limbs of 13 bits, least *)
(* significant first, so that every intermediate fits a machine integer.   *)
(***************************************************************************)

Mantissa == 53

LimbBits == 13

Limb == 2^LimbBits

NLimbs == 10

big_zero == [i \in 1..NLimbs |-> 0]

RECURSIVE big_of_(_, _)
big_of_(n, k) ==
  IF k = 0 THEN <<>> ELSE <<n % Limb>> \o big_of_(n \div Limb, k - 1)

\* The limbs of a machine integer n >= 0.
big_of(n) == big_of_(n, NLimbs)

RECURSIVE big_add_(_, _, _, _)
big_add_(a, b, i, carry) ==
  IF i > NLimbs THEN <<>>
  ELSE LET s == a[i] + b[i] + carry
       IN  <<s % Limb>> \o big_add_(a, b, i + 1, s \div Limb)

big_add(a, b) == big_add_(a, b, 1, 0)

RECURSIVE big_sub_(_, _, _, _)
big_sub_(a, b, i, borrow) ==
  IF i > NLimbs THEN <<>>
  ELSE LET d == a[i] - b[i] - borrow
       IN  IF d < 0 THEN <<d + Limb>> \o big_sub_(a, b, i + 1, 1)
           ELSE <<d>> \o big_sub_(a, b, i + 1, 0)

\* a - b for a >= b
big_sub(a, b) == big_sub_(a, b, 1, 0)

RECURSIVE big_cmp_(_, _, _)
big_cmp_(a, b, i) ==
  IF i = 0 THEN 0
  ELSE IF a[i] < b[i] THEN -1
  ELSE IF a[i] > b[i] THEN 1
  ELSE big_cmp_(a, b, i - 1)

\* -1, 0 or 1 as a < b, a = b or a > b
big_cmp(a, b) == big_cmp_(a, b, NLimbs)

RECURSIVE big_mul_small_(_, _, _, _)
big_mul_small_(a, c, i, carry) ==
  IF i > NLimbs THEN <<>>
  ELSE LET p == a[i] * c + carry
       IN  <<p % Limb>> \o big_mul_small_(a, c, i + 1, p \div Limb)

\* a * c for 0 <= c < Limb
big_mul_small(a, c) == big_mul_small_(a, c, 1, 0)

\* a * Limb^k
big_shl_limbs(a, k) ==
  [i \in 1..k |-> 0] \o SubSeq(a, 1, NLimbs - k)

\* a \div Limb^k
big_shr_limbs(a, k) ==
  SubSeq(a, k + 1, NLimbs) \o [i \in 1..k |-> 0]

RECURSIVE big_div_small_(_, _, _, _)
big_div_small_(a, c, i, rem) ==
  IF i = 0 THEN <<>>
  ELSE LET cur == rem * Limb + a[i]
       IN  big_div_small_(a, c, i - 1, cur % c) \o <<cur \div c>>

\* a \div c for 0 < c <= Limb
big_div_small(a, c) == big_div_small_(a, c, NLimbs, 0)

\* a * 2^k
big_shl(a, k) ==
  big_shl_limbs(big_mul_small(a, 2^(k % LimbBits)), k \div LimbBits)

\* a \div 2^k
big_shr(a, k) ==
  big_div_small(big_shr_limbs(a, k \div LimbBits), 2^(k % LimbBits))

RECURSIVE big_mul_(_, _, _)
big_mul_(a, b, i) ==
  IF i > NLimbs THEN big_zero
  ELSE IF b[i] = 0 THEN big_mul_(a, b, i + 1)
  ELSE big_add(big_shl_limbs(big_mul_small(a, b[i]), i - 1),
               big_mul_(a, b, i + 1))

big_mul(a, b) == big_mul_(a, b, 1)

RECURSIVE bit_length(_)
bit_length(n) == IF n = 0 THEN 0 ELSE 1 + bit_length(n \div 2)

RECURSIVE big_bit_length_(_, _)
big_bit_length_(a, i) ==
  IF i = 0 THEN 0
  ELSE IF a[i] # 0 THEN LimbBits * (i - 1) + bit_length(a[i])
  ELSE big_bit_length_(a, i - 1)

big_bit_length(a) == big_bit_length_(a, NLimbs)

big_is_odd(a) == a[1] % 2 = 1

fzero == [m |-> big_zero, e |-> 0]

\* The float nearest to M * 2^E (M > 0 exact), ties to even.
fround(M, E) ==
  LET L == big_bit_length(M)
  IN  IF L <= Mantissa
        THEN [m |-> big_shl(M, Mantissa - L), e |-> E - (Mantissa - L)]
      ELSE LET s    == L - Mantissa
               q    == big_shr(M, s)
               rem  == big_sub(M, big_shl(q, s))
               half == big_shl(big_of(1), s - 1)
               c    == big_cmp(rem, half)
               up   == c > 0 \/ (c = 0 /\ big_is_odd(q))
               q1   == IF up THEN big_add(q, big_of(1)) ELSE q
           IN  IF big_bit_length(q1) > Mantissa
                 THEN [m |-> big_shr(q1, 1), e |-> E + s + 1]
                 ELSE [m |-> q1, e |-> E + s]

\* float(n) for a machine integer n >= 0
float_of(n) == IF n = 0 THEN fzero ELSE fround(big_of(n), 0)

fis_zero(a) == a.m = big_zero

\* a * b
fmul(a, b) ==
  IF fis_zero(a) \/ fis_zero(b) THEN fzero
  ELSE fround(big_mul(a.m, b.m), a.e + b.e)

\* The quotient bits of r / d, most significant first: <<q, r>> after k steps.
RECURSIVE long_division(_, _, _, _)
long_division(q, r, d, k) ==
  IF k = 0 THEN <<q, r>>
  ELSE LET bit == big_cmp(r, d) >= 0
       IN  CHOOSE qr \in
             { long_division(q1, r1, d, k - 1) :
                 q1 \in { IF bit THEN big_add(big_add(q, q), big_of(1))
                          ELSE big_add(q, q) },
                 r1 \in { IF bit THEN big_add(big_sub(r, d), big_sub(r, d))
                          ELSE big_add(r, r) } } : TRUE

\* n times seven steps of the long division, each batch finished before the
\* next starts.
RECURSIVE long_division_by_sevens(_, _, _)
long_division_by_sevens(qr, d, n) ==
  IF n = 0 THEN qr
  ELSE CHOOSE x \in
         { long_division_by_sevens(y, d, n - 1) :
             y \in { long_division(qr[1], qr[2], d, 7) } } : TRUE

\* a / b for b > 0: the quotient of the mantissas to 56 bits and a sticky
\* bit for the remainder, rounded once.
fdiv(a, b) ==
  IF fis_zero(a) THEN fzero
  ELSE LET qr == long_division_by_sevens(<<big_zero, a.m>>, b.m,
                                         (Mantissa + 3) \div 7)
           sticky == IF qr[2] = big_zero THEN 0 ELSE 1
           M == big_add(big_add(qr[1], qr[1]), big_of(sticky))
       IN  fround(M, a.e - b.e - (Mantissa + 3))

\* a < b
flt(a, b) ==
  IF fis_zero(b) THEN FALSE
  ELSE IF fis_zero(a) THEN TRUE
  ELSE a.e < b.e \/ (a.e = b.e /\ big_cmp(a.m, b.m) < 0)

fle(a, b) == ~flt(b, a)

\* min(a, b) as Python computes it: b if b < a, else a.
fmin(a, b) == IF flt(b, a) THEN b ELSE a

\* The float a decimal literal n/d denotes (n, d machine integers, d > 0).
float_lit(n, d) ==
  IF n % d = 0 THEN float_of(n \div d) ELSE fdiv(float_of(n), float_of(d))

(***************************************************************************)
(* core/geometry.py                                                        *)
(***************************************************************************)

\* geometry.py:25-55, on floats; rect.width and rect.height are floats.
scale_physical(rect, mm_w, mm_h, scale_factor) ==
  LET k  == scale_factor
      w  == fmul(mm_w, k)
      h  == fmul(mm_h, k)
      max_w == rect.width
      max_h == rect.height
      f0 == float_of(1)
      f1 == IF flt(max_w, w) THEN fmin(f0, fdiv(max_w, w)) ELSE f0
      f2 == IF flt(max_h, h) THEN fmin(f1, fdiv(max_h, h)) ELSE f1
  IN  IF flt(f2, float_of(1))
        THEN [w |-> fmul(w, f2), h |-> fmul(h, f2)]
        ELSE [w |-> w, h |-> h]

(***************************************************************************)
(* outline_db.py: the registration primitives. T is the triple of tables.  *)
(***************************************************************************)

EmptyTables ==
  [OUTLINES |-> EmptyDict, PACKAGE_ALIASES |-> EmptyDict,
   PACKAGE_VARIANTS |-> EmptyDict]

_normalise_alias_key(raw) ==
  IF raw = <<>> THEN <<>>
  ELSE remove_char(remove_char(upper(strip(raw)), " "), "_")

_register_alias(T, alias, canonical_id) ==
  LET key == _normalise_alias_key(alias)
  IN  IF key # <<>>
        THEN [T EXCEPT !.PACKAGE_ALIASES = dict_set(@, key, canonical_id)]
        ELSE T

\* for alias in aliases: _register_alias(alias, canonical_id)
RECURSIVE register_aliases(_, _, _)
register_aliases(T, aliases, canonical_id) ==
  IF aliases = <<>> THEN T
  ELSE register_aliases(_register_alias(T, Head(aliases), canonical_id),
                        Tail(aliases), canonical_id)

\* The entry dict: family_id and params are keys only when the argument is
\* not None (family_id and params are given as <<>> for None, <<v>> for v).
outline_entry(canonical_id, domain, group, family_id, params) ==
  LET e0 == [id |-> canonical_id, domain |-> domain, group |-> group]
      e1 == IF family_id # <<>> THEN dict_set(e0, "family_id", family_id[1]) ELSE e0
  IN  IF params # <<>> THEN dict_set(e1, "params", params[1]) ELSE e1

\* Variation for C23: an id that is already registered keeps its entry.
_register_outline_keep_first(T, canonical_id, domain, group, family_id, params, aliases) ==
  LET entry == outline_entry(canonical_id, domain, group, family_id, params)
      T1 == IF canonical_id \in DOMAIN T.OUTLINES THEN T
            ELSE [T EXCEPT !.OUTLINES = dict_set(@, canonical_id, entry)]
  IN  register_aliases(T1, aliases, canonical_id)

_register_outline(T, canonical_id, domain, group, family_id, params, aliases) ==
  LET entry == outline_entry(canonical_id, domain, group, family_id, params)
      T1 == [T EXCEPT !.OUTLINES = dict_set(@, canonical_id, entry)]
  IN  register_aliases(T1, aliases, canonical_id)

\* for alias in aliases: PACKAGE_VARIANTS[normalised alias] = dict(record)
RECURSIVE register_variant_keys(_, _, _)
register_variant_keys(T, names, record) ==
  IF names = <<>> THEN T
  ELSE LET key == _normalise_alias_key(Head(names))
           T1 == IF key # <<>>
                   THEN [T EXCEPT !.PACKAGE_VARIANTS = dict_set(@, key, record)]
                   ELSE T
       IN  register_variant_keys(T1, Tail(names), record)

\* Variation for C5: the aliases of a variant registered as pure aliases of
\* its base outline.
_register_variant_aliases_to_base(T, variant_id, base_id, overrides, aliases) ==
  LET record == [base_id |-> base_id, variant_id |-> variant_id,
                 overrides |-> overrides]
  IN  register_aliases(register_variant_keys(T, <<variant_id>>, record),
                       aliases, base_id)

_register_variant(T, variant_id, base_id, overrides, aliases) ==
  LET record == [base_id |-> base_id, variant_id |-> variant_id,
                 overrides |-> overrides]
  IN  register_variant_keys(T, <<variant_id>> \o aliases, record)

(***************************************************************************)
(* outline_db.py: the two seeding passes run at import (lines 711-712).    *)
(***************************************************************************)

do_groups ==
  <<
    [group |-> "Button Rectifier", ids |->
      <<<<"D","O","-","2","1","7">>>>],
    [group |-> "Disc Type", ids |->
      <<<<"D","O","-","2","0","0">>>>],
    [group |-> "Flanged Mount Family", ids |->
      <<<<"D","O","-","2","1","1">>>>],
    [group |-> "Leadless Family", ids |->
      <<<<"D","O","-","2","1","3">>>>],
    [group |-> "Lead Mounted Family", ids |->
      <<<<"D","O","-","2","0","4">>>>],
    [group |-> "Plastic Surface-Mount Family", ids |->
      <<<<"D","O","-","2","1","4">>,
        <<"D","O","-","2","1","5">>,
        <<"D","O","-","2","1","6">>,
        <<"D","O","-","2","1","8">>,
        <<"D","O","-","2","1","9">>,
        <<"D","O","-","2","2","0">>,
        <<"D","O","-","2","2","1">>,
        <<"D","O","-","2","2","2">>>>],
    [group |-> "Round Body Axial Lead", ids |->
      <<<<"D","O","-","2","0","1","-","A","A">>,
        <<"D","O","-","2","0","2","-","A","A">>,
        <<"D","O","-","2","0","4","-","A","A">>,
        <<"D","O","-","2","0","4","-","A","C">>,
        <<"D","O","-","2","0","4","-","A","F">>,
        <<"D","O","-","2","0","4","-","A","G">>,
        <<"D","O","-","2","0","4","-","A","H">>,
        <<"D","O","-","2","0","4","-","A","L">>>>],
    [group |-> "Round Body Axial Type", ids |->
      <<<<"D","O","-","2","0","1">>>>],
    [group |-> "Single-End Press-Fit", ids |->
      <<<<"D","O","-","2","0","8">>,
        <<"D","O","-","2","0","9">>>>],
    [group |-> "Stud-Hex Base", ids |->
      <<<<"D","O","-","2","0","3">>,
        <<"D","O","-","2","0","5">>>>],
    [group |-> "Terminal Stud Axial Lead", ids |->
      <<<<"D","O","-","2","0","3","-","A","B">>>>]
  >>

to_groups ==
  <<
    [group |-> "Axial Leads", ids |->
      <<<<"T","O","-","9">>,
        <<"T","O","-","4","2">>,
        <<"T","O","-","7","2">>,
        <<"T","O","-","7","3">>,
        <<"T","O","-","7","4">>,
        <<"T","O","-","7","5">>,
        <<"T","O","-","7","6">>,
        <<"T","O","-","7","7">>,
        <<"T","O","-","7","8">>,
        <<"T","O","-","7","9">>,
        <<"T","O","-","8","0">>,
        <<"T","O","-","9","6">>,
        <<"T","O","-","9","7">>,
        <<"T","O","-","9","9">>,
        <<"T","O","-","1","0","0">>,
        <<"T","O","-","1","0","1">>,
        <<"T","O","-","2","0","5","-","A","A">>,
        <<"T","O","-","2","0","5","-","A","B">>,
        <<"T","O","-","2","0","6","-","A","A">>,
        <<"T","O","-","2","0","5","-","A","C">>,
        <<"T","O","-","2","0","5","-","A","D">>,
        <<"T","O","-","2","0","6","-","A","B">>,
        <<"T","O","-","2","3","3","-","A","A">>>>],
    [group |-> "Ceramic No Lead", ids |->
      <<<<"T","O","-","2","7","6">>>>],
    [group |-> "Coaxial Type", ids |->
      <<<<"T","O","-","2","1","5">>>>],
    [group |-> "Disc Type Family", ids |->
      <<<<"T","O","-","2","0","0">>>>],
    [group |-> "Diamond Base", ids |->
      <<<<"T","O","-","3","7">>,
        <<"T","O","-","6","6">>,
        <<"T","O","-","2","0","4","-","A","A">>,
        <<"T","O","-","2","0","4","-","A","B">>,
        <<"T","O","-","2","1","3","-","A","B">>,
        <<"T","O","-","2","1","3","-","A","C">>>>],
    [group |-> "Double-Ended Flatpack", ids |->
      <<<<"T","O","-","8","7">>,
        <<"T","O","-","8","8">>,
        <<"T","O","-","8","9">>,
        <<"T","O","-","9","0">>,
        <<"T","O","-","9","1">>,
        <<"T","O","-","9","5">>>>],
    [group |-> "Dual-in-Package", ids |->
      <<<<"T","O","-","2","5","0">>>>],
    [group |-> "Flange-Mounted Header Family", ids |->
      <<<<"T","O","-","2","0","4">>,
        <<"T","O","-","2","1","3">>,
        <<"T","O","-","2","1","8">>,
        <<"T","O","-","2","1","9">>,
        <<"T","O","-","2","2","0">>,
        <<"T","O","-","2","3","8">>,
        <<"T","O","-","2","5","7">>,
        <<"T","O","-","2","5","8">>,
        <<"T","O","-","2","5","9">>,
        <<"T","O","-","2","6","2">>,
        <<"T","O","-","2","6","4">>,
        <<"T","O","-","2","6","7">>,
        <<"T","O","-","2","8","0">>,
        <<"T","O","-","2","8","1">>>>],
    [group |-> "Flange-Mounted Package", ids |->
      <<<<"T","O","-","2","7","3">>>>],
    [group |-> "Flange-Mounted Peripheral Terminal", ids |->
      <<<<"T","O","-","2","4","7">>,
        <<"T","O","-","2","5","4">>>>],
    [group |-> "Flange-Mounted Rectangular Base", ids |->
      <<<<"T","O","-","2","4","4">>>>],
    [group |-> "Flat Index Axial Leaded", ids |->
      <<<<"T","O","-","9","2">>>>],
    [group |-> "Flat Leads", ids |->
      <<<<"T","O","-","2","2","5","-","A","A">>,
        <<"T","O","-","2","3","2","-","A","A">>>>],
    [group |-> "Flat Mounted Transistor", ids |->
      <<<<"T","O","-","2","5","6">>,
        <<"T","O","-","2","8","2">>>>],
    [group |-> "Flexible Terminals", ids |->
      <<<<"T","O","-","2","0","9">>>>],
    [group |-> "Header Family", ids |->
      <<<<"T","O","-","2","0","5">>,
        <<"T","O","-","2","0","6">>,
        <<"T","O","-","2","3","6">>,
        <<"T","O","-","2","3","7">>,
        <<"T","O","-","2","4","3">>,
        <<"T","O","-","2","5","1">>,
        <<"T","O","-","2","5","2">>,
        <<"T","O","-","2","6","0">>,
        <<"T","O","-","2","6","3">>,
        <<"T","O","-","2","6","8">>,
        <<"T","O","-","2","7","9">>>>],
    [group |-> "Multiple-Ended Flatpack", ids |->
      <<<<"T","O","-","8","4">>,
        <<"T","O","-","8","5">>,
        <<"T","O","-","8","6">>>>],
    [group |-> "Opto Family Insertion Mount", ids |->
      <<<<"T","O","-","2","6","6">>>>],
    [group |-> "Plastic Clip Mounted Package", ids |->
      <<<<"T","O","-","2","7","4">>>>],
    [group |-> "Power Package", ids |->
      <<<<"T","O","-","2","6","5">>,
        <<"T","O","-","2","7","0">>,
        <<"T","O","-","2","7","2">>,
        <<"T","O","-","2","7","5">>>>],
    [group |-> "Quad Flack Pack Surface Mount", ids |->
      <<<<"T","O","-","2","7","1">>>>],
    [group |-> "Small Outline", ids |->
      <<<<"T","O","-","2","6","9">>>>],
    [group |-> "Small Outline Transistor (SOT)", ids |->
      <<<<"T","O","-","2","5","3">>,
        <<"T","O","-","2","6","1">>>>],
    [group |-> "Solid Terminals", ids |->
      <<<<"T","O","-","2","0","8">>>>],
    [group |-> "Stud-Mount Flex Lead", ids |->
      <<<<"T","O","-","9","4">>>>],
    [group |-> "Stud-Mounted Stripline", ids |->
      <<<<"T","O","-","2","1","6">>>>],
    [group |-> "Tab-Mounted Peripheral Leads", ids |->
      <<<<"T","O","-","2","0","2">>>>],
    [group |-> "Terminal Strip Power Module", ids |->
      <<<<"T","O","-","2","4","0">>>>]
  >>

gen_groups ==
  <<
    [group |-> "Axial Diode", ids |->
      <<<<"R","-","6">>>>],
    [group |-> "Axial Diode", ids |->
      <<<<"T","-","1","8">>>>]
  >>

apply_call(T, c) ==
  IF c.op = "outline"
    THEN _register_outline(T, c.canonical_id, c.domain, c.group, c.family_id,
                           c.params, c.aliases)
    ELSE _register_variant(T, c.variant_id, c.base_id, c.overrides, c.aliases)

\* The calls numbered lo..hi applied in order, each to the tables the one
\* before left. (The range is halved and T1 is bound through a set, so that
\* the evaluation stays shallow.)
RECURSIVE apply_calls(_, _, _, _)
apply_calls(T, calls, lo, hi) ==
  IF lo > hi THEN T
  ELSE IF lo = hi THEN apply_call(T, calls[lo])
  ELSE LET mid == (lo + hi) \div 2
       IN  CHOOSE R \in { apply_calls(T1, calls, mid + 1, hi) :
                            T1 \in {apply_calls(T, calls, lo, mid)} } : TRUE

\* for group, ids in groups: for outline_id in ids:
\*     _register_outline(outline_id, domain=domain, group=group)
\* as the list of these calls, for the groups numbered lo..hi.
RECURSIVE group_calls(_, _, _, _)
group_calls(groups, domain, lo, hi) ==
  IF lo > hi THEN <<>>
  ELSE IF lo = hi
    THEN [i \in 1..Len(groups[lo].ids) |->
            [op |-> "outline", canonical_id |-> groups[lo].ids[i],
             domain |-> domain, group |-> groups[lo].group,
             family_id |-> <<>>, params |-> <<>>, aliases |-> <<>>]]
  ELSE LET mid == (lo + hi) \div 2
       IN  group_calls(groups, domain, lo, mid)
             \o group_calls(groups, domain, mid + 1, hi)

\* Registers every outline as known: no family, no params, no aliases.
full_outline_calls ==
  group_calls(do_groups, "DO", 1, Len(do_groups))
    \o group_calls(to_groups, "TO", 1, Len(to_groups))
    \o group_calls(gen_groups, "GEN", 1, Len(gen_groups))

_seed_full_outline_registry(T) ==
  apply_calls(T, full_outline_calls, 1, Len(full_outline_calls))

\* The registration calls of _seed_current_renderables, in source order.
\* Millimetre and degree values are held in thousandths (3.9 mm is 3900);
\* pin counts and pin indices are plain integers.
current_renderables ==
  <<
    \* outline_db.py:298
    [op |-> "outline", canonical_id |-> <<"D","O","-","2","0","1","-","A","A">>,
     domain |-> "DO", group |-> "Round Body Axial Lead",
     family_id |-> <<"axial_round_body">>,
     params |-> <<[len |-> 8350, dia |-> 5300, material |-> <<"e","p","o","x","y">>]>>,
     aliases |-> <<<<"D","O","-","2","7">>>>],
    \* outline_db.py:307
    [op |-> "outline", canonical_id |-> <<"D","O","-","2","0","4","-","A","H">>,
     domain |-> "DO", group |-> "Round Body Axial Lead",
     family_id |-> <<"axial_round_body">>,
     params |-> <<[len |-> 3900, dia |-> 1700, material |-> <<"g","l","a","s","s">>]>>,
     aliases |-> <<<<"D","O","-","3","5">>>>],
    \* outline_db.py:315
    [op |-> "outline", canonical_id |-> <<"D","O","-","2","0","4","-","A","L">>,
     domain |-> "DO", group |-> "Round Body Axial Lead",
     family_id |-> <<"axial_round_body">>,
     params |-> <<[len |-> 4700, dia |-> 2700, material |-> <<"e","p","o","x","y">>]>>,
     aliases |-> <<<<"D","O","-","4","1">>>>],
    \* outline_db.py:323
    [op |-> "outline", canonical_id |-> <<"D","O","-","2","0","4","-","A","C">>,
     domain |-> "DO", group |-> "Round Body Axial Lead",
     family_id |-> <<"axial_round_body">>,
     params |-> <<[len |-> 7000, dia |-> 3600, material |-> <<"e","p","o","x","y">>]>>,
     aliases |-> <<<<"D","O","-","1","5">>>>],
    \* outline_db.py:331
    [op |-> "outline", canonical_id |-> <<"D","O","-","2","0","4","-","A","F">>,
     domain |-> "DO", group |-> "Round Body Axial Lead",
     family_id |-> <<"axial_round_body">>,
     params |-> <<[len |-> 9500, dia |-> 5300, material |-> <<"e","p","o","x","y">>]>>,
     aliases |-> <<<<"D","O","-","2","9">>>>],
    \* outline_db.py:339
    [op |-> "outline", canonical_id |-> <<"D","O","-","2","0","1","-","A","D">>,
     domain |-> "DO", group |-> "Round Body Axial Type",
     family_id |-> <<"axial_round_body">>,
     params |-> <<[len |-> 9000, dia |-> 5100, material |-> <<"e","p","o","x","y">>]>>,
     aliases |-> <<<<"D","O","-","2","0","1">>>>],
    \* outline_db.py:348
    [op |-> "outline", canonical_id |-> <<"T","O","-","9","2">>,
     domain |-> "TO", group |-> "Flat Index Axial Leaded",
     family_id |-> <<"to92_moulded">>,
     params |-> <<[pin_count |-> 3, body_w |-> 4800, body_h |-> 4800, lead_len |-> 11000, lead_pitch |-> 1270]>>,
     aliases |-> <<<<"T","O","9","2">>>>],
    \* outline_db.py:363
    [op |-> "outline", canonical_id |-> <<"T","O","-","2","0","4","-","A","A">>,
     domain |-> "TO", group |-> "Diamond Base",
     family_id |-> <<"to204_diamond">>,
     params |-> <<[pin_count |-> 2, pin_arc_start_deg |-> 65000, pin_arc_stop_deg |-> -65000, pin_diameter_mm |-> 1000, is_body_pin |-> TRUE]>>,
     aliases |-> <<<<"T","O","-","3">>, <<"T","O","3">>>>],
    \* outline_db.py:378
    [op |-> "outline", canonical_id |-> <<"T","O","-","2","0","5","-","A","D">>,
     domain |-> "TO", group |-> "Axial Leads",
     family_id |-> <<"to205_package">>,
     params |-> <<[pin_count |-> 3, pin_diameter_mm |-> 1000, pin_connected_to_body |-> 3]>>,
     aliases |-> <<<<"T","O","-","2","0","5">>, <<"T","O","2","0","5">>, <<"T","O","-","3","9">>, <<"T","O","3","9">>>>],
    \* outline_db.py:391
    [op |-> "outline", canonical_id |-> <<"T","O","-","2","0","6","-","A","A">>,
     domain |-> "TO", group |-> "Axial Leads",
     family_id |-> <<"to206_package">>,
     params |-> <<[pin_count |-> 3, pin_diameter_mm |-> 1000, pin_connected_to_body |-> 3]>>,
     aliases |-> <<<<"T","O","-","2","0","6">>, <<"T","O","2","0","6">>, <<"T","O","-","1","8">>, <<"T","O","1","8">>>>],
    \* outline_db.py:404
    [op |-> "outline", canonical_id |-> <<"T","O","-","2","1","8","-","A","A">>,
     domain |-> "TO", group |-> "Flat Leads",
     family_id |-> <<"to218_tab">>,
     params |-> <<[pin_count |-> 3, tab_is_pin |-> TRUE]>>,
     aliases |-> <<<<"T","O","-","2","1","8">>>>],
    \* outline_db.py:412
    [op |-> "variant", variant_id |-> <<"T","O","-","2","1","8","-","5">>,
     base_id |-> <<"T","O","-","2","1","8","-","A","A">>,
     overrides |-> [pin_count |-> 5, tab_is_pin |-> TRUE],
     aliases |-> <<>>],
    \* outline_db.py:418
    [op |-> "outline", canonical_id |-> <<"T","O","-","2","2","5","-","A","A">>,
     domain |-> "TO", group |-> "Flat Leads",
     family_id |-> <<"to225_tab">>,
     params |-> <<[pin_count |-> 3, tab_is_pin |-> TRUE]>>,
     aliases |-> <<<<"T","O","-","1","2","6">>, <<"T","O","1","2","6">>>>],
    \* outline_db.py:427
    [op |-> "outline", canonical_id |-> <<"T","O","-","2","2","0","-","A","B">>,
     domain |-> "TO", group |-> "Flange-Mounted Header Family",
     family_id |-> <<"to220_tab">>,
     params |-> <<[pin_count |-> 3, tab_is_pin |-> TRUE, tab_finish |-> <<"m","e","t","a","l","l","i","c">>]>>,
     aliases |-> <<<<"T","O","-","2","2","0">>, <<"T","O","2","2","0">>>>],
    \* outline_db.py:435
    [op |-> "variant", variant_id |-> <<"T","O","-","2","2","0","-","A","A">>,
     base_id |-> <<"T","O","-","2","2","0","-","A","B">>,
     overrides |-> [pin_count |-> 3, tab_is_pin |-> FALSE, tab_finish |-> <<"m","e","t","a","l","l","i","c">>],
     aliases |-> <<>>],
    \* outline_db.py:440
    [op |-> "variant", variant_id |-> <<"T","O","-","2","2","0","-","A","C">>,
     base_id |-> <<"T","O","-","2","2","0","-","A","B">>,
     overrides |-> [pin_count |-> 2, tab_is_pin |-> TRUE, tab_finish |-> <<"m","e","t","a","l","l","i","c">>],
     aliases |-> <<>>],
    \* outline_db.py:445
    [op |-> "variant", variant_id |-> <<"T","O","-","2","2","0","-","A","B","-","5","L">>,
     base_id |-> <<"T","O","-","2","2","0","-","A","B">>,
     overrides |-> [pin_count |-> 5],
     aliases |-> <<<<"T","O","-","2","2","0","-","5">>, <<"T","O","2","2","0","-","5">>, <<"T","O","-","2","2","0","-","5","L">>>>],
    \* outline_db.py:451
    [op |-> "variant", variant_id |-> <<"T","O","-","2","2","0","-","A","B","-","6","L">>,
     base_id |-> <<"T","O","-","2","2","0","-","A","B">>,
     overrides |-> [pin_count |-> 6],
     aliases |-> <<<<"T","O","-","2","2","0","-","6">>, <<"T","O","2","2","0","-","6">>, <<"T","O","-","2","2","0","-","6","L">>>>],
    \* outline_db.py:457
    [op |-> "variant", variant_id |-> <<"T","O","-","2","2","0","-","A","B","-","7","L">>,
     base_id |-> <<"T","O","-","2","2","0","-","A","B">>,
     overrides |-> [pin_count |-> 7],
     aliases |-> <<<<"T","O","-","2","2","0","-","7">>, <<"T","O","2","2","0","-","7">>, <<"T","O","-","2","2","0","-","7","L">>>>],
    \* outline_db.py:463
    [op |-> "variant", variant_id |-> <<"T","O","-","2","2","0","-","F">>,
     base_id |-> <<"T","O","-","2","2","0","-","A","B">>,
     overrides |-> [pin_count |-> 3, tab_is_pin |-> TRUE, tab_finish |-> <<"i","n","s","u","l","a","t","e","d">>],
     aliases |-> <<<<"T","O","2","2","0","F">>, <<"T","O","-","2","2","0","F">>>>],
    \* outline_db.py:470
    [op |-> "outline", canonical_id |-> <<"T","O","-","2","4","3","-","A","A">>,
     domain |-> "TO", group |-> "Header Family",
     family_id |-> <<"to243_tab">>,
     params |-> <<[body_w |-> 4500, body_h |-> 2760]>>,
     aliases |-> <<<<"T","O","2","4","3">>, <<"S","O","T","-","8","9">>, <<"S","O","T","8","9">>>>],
    \* outline_db.py:481
    [op |-> "variant", variant_id |-> <<"T","O","-","2","4","3","-","A","B">>,
     base_id |-> <<"T","O","-","2","4","3","-","A","A">>,
     overrides |-> [pin_count |-> 3],
     aliases |-> <<<<"T","O","2","4","3","A","B">>, <<"S","O","T","-","8","9","-","2">>, <<"S","O","T","8","9","-","2">>>>],
    \* outline_db.py:487
    [op |-> "variant", variant_id |-> <<"T","O","-","2","4","3","-","6">>,
     base_id |-> <<"T","O","-","2","4","3","-","A","A">>,
     overrides |-> [pin_count |-> 6],
     aliases |-> <<<<"T","O","2","4","3","-","6">>, <<"S","O","T","-","8","9","-","6">>, <<"S","O","T","8","9","-","6">>>>],
    \* outline_db.py:494
    [op |-> "outline", canonical_id |-> <<"T","O","-","2","4","7">>,
     domain |-> "TO", group |-> "Flange-Mounted Peripheral Terminal",
     family_id |-> <<"to247_tab">>,
     params |-> <<[pin_count |-> 3, body_w |-> 20000, body_h |-> 15600, lead_len |-> 20000]>>,
     aliases |-> <<<<"T","O","2","4","7">>>>],
    \* outline_db.py:507
    [op |-> "variant", variant_id |-> <<"T","O","-","2","4","7","-","4">>,
     base_id |-> <<"T","O","-","2","4","7">>,
     overrides |-> [pin_count |-> 4],
     aliases |-> <<>>],
    \* outline_db.py:513
    [op |-> "outline", canonical_id |-> <<"T","O","-","2","6","4">>,
     domain |-> "TO", group |-> "Flange-Mounted Header Family",
     family_id |-> <<"to264_body">>,
     params |-> <<[body_mm |-> 20000, height_mm |-> 26000, lead_mm |-> 20000, hole_d_mm |-> 3810, scallop_d_mm |-> 6350, scallop_y_mm |-> 6000, pin_count |-> 3, pin_pitch_mm |-> 5750]>>,
     aliases |-> <<<<"T","O","2","6","4">>, <<"T","O","-","2","6","4","A","A">>, <<"T","O","-","3","P">>>>],
    \* outline_db.py:531
    [op |-> "variant", variant_id |-> <<"T","O","-","2","6","4","-","2">>,
     base_id |-> <<"T","O","-","2","6","4">>,
     overrides |-> [pin_count |-> 2],
     aliases |-> <<<<"T","O","2","6","4","-","2">>, <<"T","O","-","2","6","4","-","2","L">>>>],
    \* outline_db.py:538
    [op |-> "variant", variant_id |-> <<"T","O","-","2","6","4","-","5">>,
     base_id |-> <<"T","O","-","2","6","4">>,
     overrides |-> [pin_count |-> 5, pin_pitch_mm |-> 3810],
     aliases |-> <<<<"T","O","2","6","4","-","5">>, <<"T","O","-","2","6","4","-","5","L">>>>],
    \* outline_db.py:545
    [op |-> "outline", canonical_id |-> <<"D","O","-","2","1","3","-","A","B">>,
     domain |-> "DO", group |-> "Leadless Family",
     family_id |-> <<"melf">>,
     params |-> <<[body_length |-> 5000, body_diameter |-> 2400, pad_width |-> 550, material |-> <<"g","l","a","s","s">>]>>,
     aliases |-> <<<<"M","E","L","F">>, <<"M","M","B">>, <<"S","O","D","-","1","0","6">>>>],
    \* outline_db.py:576
    [op |-> "outline", canonical_id |-> <<"D","O","-","2","1","4","-","A","C">>,
     domain |-> "DO", group |-> "Plastic Surface-Mount Family",
     family_id |-> <<"smd_2pad">>,
     params |-> <<[body_w |-> 4300, body_h |-> 2600, pad_w |-> 1200, pad_h |-> 1450]>>,
     aliases |-> <<<<"S","M","A">>>>],
    \* outline_db.py:576
    [op |-> "outline", canonical_id |-> <<"D","O","-","2","1","4","-","A","A">>,
     domain |-> "DO", group |-> "Plastic Surface-Mount Family",
     family_id |-> <<"smd_2pad">>,
     params |-> <<[body_w |-> 4320, body_h |-> 3620, pad_w |-> 1200, pad_h |-> 2100]>>,
     aliases |-> <<<<"S","M","B">>>>],
    \* outline_db.py:576
    [op |-> "outline", canonical_id |-> <<"D","O","-","2","1","4","-","A","B">>,
     domain |-> "DO", group |-> "Plastic Surface-Mount Family",
     family_id |-> <<"smd_2pad">>,
     params |-> <<[body_w |-> 6860, body_h |-> 5900, pad_w |-> 1200, pad_h |-> 2970]>>,
     aliases |-> <<<<"S","M","C">>>>],
    \* outline_db.py:585
    [op |-> "outline", canonical_id |-> <<"S","O","T","-","2","3">>,
     domain |-> "TO", group |-> "Small Outline Transistor (SOT)",
     family_id |-> <<"smd_3lead">>,
     params |-> <<[body_w |-> 2900, body_h |-> 1300, pad2_w |-> 400, pad2_h |-> 600, pad2_pitch |-> 1900, pad1_w |-> 400, pad1_h |-> 600, pin_count |-> 3]>>,
     aliases |-> <<<<"S","O","T","2","3">>, <<"S","O","T","-","2","3","-","3">>, <<"S","O","T","2","3","-","3">>, <<"T","O","-","2","3","6">>, <<"T","O","-","2","3","6","A","A">>, <<"S","O","T","-","2","3","F">>>>],
    \* outline_db.py:610
    [op |-> "variant", variant_id |-> <<"S","O","T","-","2","3","-","4">>,
     base_id |-> <<"S","O","T","-","2","3">>,
     overrides |-> [pin_count |-> 4],
     aliases |-> <<<<"S","O","T","2","3","-","4">>, <<"S","O","T","-","2","3","-","4","L">>, <<"S","O","T","2","3","-","4","L">>>>],
    \* outline_db.py:619
    [op |-> "variant", variant_id |-> <<"S","O","T","-","2","3","-","5">>,
     base_id |-> <<"S","O","T","-","2","3">>,
     overrides |-> [pin_count |-> 5],
     aliases |-> <<<<"S","O","T","2","3","-","5">>, <<"S","O","T","-","2","3","-","5","L">>, <<"S","O","T","2","3","-","5","L">>>>],
    \* outline_db.py:628
    [op |-> "variant", variant_id |-> <<"S","O","T","-","2","3","-","6">>,
     base_id |-> <<"S","O","T","-","2","3">>,
     overrides |-> [pin_count |-> 6],
     aliases |-> <<<<"S","O","T","2","3","-","6">>, <<"S","O","T","-","2","3","-","6","L">>, <<"S","O","T","2","3","-","6","L">>>>],
    \* outline_db.py:637
    [op |-> "variant", variant_id |-> <<"S","O","T","-","2","3","-","8">>,
     base_id |-> <<"S","O","T","-","2","3">>,
     overrides |-> [pin_count |-> 8],
     aliases |-> <<<<"S","O","T","2","3","-","8">>, <<"S","O","T","-","2","3","-","8","L">>, <<"S","O","T","2","3","-","8","L">>>>],
    \* outline_db.py:646
    [op |-> "outline", canonical_id |-> <<"S","O","T","-","3","2","3">>,
     domain |-> "EIAJ", group |-> "Small Outline Transistor (SOT)",
     family_id |-> <<"smd_3lead">>,
     params |-> <<[body_w |-> 2200, body_h |-> 1350, pad2_w |-> 400, pad2_h |-> 425, pad2_pitch |-> 1300, pad1_w |-> 400, pad1_h |-> 525, pin_count |-> 3]>>,
     aliases |-> <<<<"S","O","T","3","2","3">>, <<"S","O","T","-","3","2","3","-","3">>, <<"S","O","T","3","2","3","-","3">>, <<"S","C","-","7","0">>>>],
    \* outline_db.py:669
    [op |-> "outline", canonical_id |-> <<"R","-","6">>,
     domain |-> "GEN", group |-> "Axial Diode",
     family_id |-> <<"axial_round_body">>,
     params |-> <<[len |-> 8800, dia |-> 8800, material |-> <<"e","p","o","x","y">>]>>,
     aliases |-> <<<<"R","6">>>>],
    \* outline_db.py:682
    [op |-> "outline", canonical_id |-> <<"T","-","1","8">>,
     domain |-> "GEN", group |-> "Axial Diode",
     family_id |-> <<"axial_round_body">>,
     params |-> <<[len |-> 8800, dia |-> 3500, material |-> <<"e","p","o","x","y">>]>>,
     aliases |-> <<<<"T","1","8">>>>],
    \* outline_db.py:695
    [op |-> "outline", canonical_id |-> <<"5","M","M"," ","R","O","U","N","D"," ","T","/","H">>,
     domain |-> "IEC", group |-> "Leaded LED",
     family_id |-> <<"led_tht_round">>,
     params |-> <<[body_d |-> 5000, body_h |-> 8600, lead_len |-> 17000, lead_pitch |-> 2540, lead_w |-> 600]>>,
     aliases |-> <<<<"L","E","D","5","M","M">>, <<"5","M","M","L","E","D">>>>]
  >>

_seed_current_renderables(T) ==
  apply_calls(T, current_renderables, 1, Len(current_renderables))

(***************************************************************************)
(* resolve.py                                                              *)
(***************************************************************************)

_normalise_lookup(raw) ==
  IF raw = <<>> THEN <<>>
  ELSE remove_char(remove_char(upper(strip(raw)), " "), "_")

\* for q in parts[1:]: qt = q.strip().lower(); if qt: qualifiers.append(qt)
RECURSIVE qualifier_tokens(_)
qualifier_tokens(parts) ==
  IF parts = <<>> THEN <<>>
  ELSE LET qt == lower(strip(Head(parts)))
       IN  (IF qt # <<>> THEN <<qt>> ELSE <<>>) \o qualifier_tokens(Tail(parts))

\* Variation for C8: the whole raw string taken as the base key.
_split_qualifiers_keep_base(raw) ==
  IF raw = <<>> THEN [base |-> <<>>, qualifiers |-> <<>>]
  ELSE LET parts == split(raw, "@")
       IN  [base |-> strip(raw), qualifiers |-> qualifier_tokens(Tail(parts))]

_split_qualifiers(raw) ==
  IF raw = <<>> THEN [base |-> <<>>, qualifiers |-> <<>>]
  ELSE LET parts == split(raw, "@")
       IN  [base |-> strip(Head(parts)),
            qualifiers |-> qualifier_tokens(Tail(parts))]

MaterialTokens ==
  { <<"g","l","a","s","s">>, <<"e","p","o","x","y">>, <<"b","l","u","e">>,
    <<"m","e","t","a","l","l","i","c">>, <<"y","e","l","l","o","w">> }

FinishTokens ==
  { <<"f","u","l","l","p","a","c","k">>,
    <<"i","n","s","u","l","a","t","e","d">>, <<"f">> }

Insulated == <<"i","n","s","u","l","a","t","e","d">>

\* One turn of the loop of _apply_qualifiers. No params map of the registry
\* carries the key "qualifiers", so `existing` is None or the list an earlier
\* turn of this call created.
apply_qualifier(params, q) ==
  IF q \in MaterialTokens THEN dict_set(params, "material", q)
  ELSE IF q \in FinishTokens THEN dict_set(params, "tab_finish", Insulated)
  ELSE IF "qualifiers" \in DOMAIN params
    THEN dict_set(params, "qualifiers", Append(params["qualifiers"], q))
    ELSE dict_set(params, "qualifiers", <<q>>)

\* Variation for C7: the qualifiers applied from the last to the first.
RECURSIVE _apply_qualifiers_backwards(_, _)
_apply_qualifiers_backwards(params, qualifiers) ==
  IF qualifiers = <<>> THEN params
  ELSE _apply_qualifiers_backwards(
         apply_qualifier(params, qualifiers[Len(qualifiers)]),
         SubSeq(qualifiers, 1, Len(qualifiers) - 1))

RECURSIVE _apply_qualifiers(_, _)
_apply_qualifiers(params, qualifiers) ==
  IF qualifiers = <<>> THEN params
  ELSE _apply_qualifiers(apply_qualifier(params, Head(qualifiers)),
                         Tail(qualifiers))

\* Variation for C1: the alias table is consulted before the variant table.
_resolve_alias_first(raw_key) ==
  LET key == _normalise_lookup(raw_key)
  IN  IF key \in DOMAIN PACKAGE_ALIASES
        THEN [canonical_id |-> PACKAGE_ALIASES[key],
              print_id |-> PACKAGE_ALIASES[key], overrides |-> EmptyDict]
      ELSE IF key \in DOMAIN PACKAGE_VARIANTS
        THEN LET variant == PACKAGE_VARIANTS[key]
             IN  [canonical_id |-> variant.base_id,
                  print_id |-> IF variant.variant_id # <<>>
                                 THEN variant.variant_id ELSE variant.base_id,
                  overrides |-> variant.overrides]
      ELSE IF key \in DOMAIN OUTLINES
        THEN [canonical_id |-> key, print_id |-> key, overrides |-> EmptyDict]
      ELSE [canonical_id |-> <<>>, print_id |-> <<>>, overrides |-> EmptyDict]

\* (canonical_id, print_id, overrides); ("", "", {}) when no table has the key
_resolve_to_ids_and_overrides(raw_key) ==
  LET key == _normalise_lookup(raw_key)
  IN  IF key \in DOMAIN PACKAGE_VARIANTS
        THEN LET variant == PACKAGE_VARIANTS[key]
             IN  [canonical_id |-> variant.base_id,
                  print_id |-> IF variant.variant_id # <<>>
                                 THEN variant.variant_id ELSE variant.base_id,
                  overrides |-> variant.overrides]
      ELSE IF key \in DOMAIN PACKAGE_ALIASES
        THEN [canonical_id |-> PACKAGE_ALIASES[key],
              print_id |-> PACKAGE_ALIASES[key], overrides |-> EmptyDict]
      ELSE IF key \in DOMAIN OUTLINES
        THEN [canonical_id |-> key, print_id |-> key, overrides |-> EmptyDict]
      ELSE [canonical_id |-> <<>>, print_id |-> <<>>, overrides |-> EmptyDict]

\* `return None`
NoPackage == [found |-> FALSE]

\* Variation for C2: OUTLINES.get(canonical_id, {}), a missing outline read
\* as an empty entry.
outlines_get_or_empty(canonical_id) ==
  IF canonical_id \in DOMAIN OUTLINES
    THEN <<OUTLINES[canonical_id]>> ELSE <<EmptyDict>>

\* entry = OUTLINES.get(canonical_id): <<>> is None
outlines_get(canonical_id) ==
  IF canonical_id \in DOMAIN OUTLINES THEN <<OUTLINES[canonical_id]>> ELSE <<>>

\* Variation for C3: the two updates in the other order, base params applied
\* on top of the overrides.
merged_params_base_last(entry, overrides, qualifiers) ==
  LET base_params == IF "params" \in DOMAIN entry THEN entry["params"] ELSE EmptyDict
  IN  _apply_qualifiers(dict_update(dict_update(EmptyDict, overrides), base_params),
                        qualifiers)

\* Variation for C6: params.update(base_params) left out.
merged_params_without_base(entry, overrides, qualifiers) ==
  _apply_qualifiers(dict_update(EmptyDict, overrides), qualifiers)

\* params = {}; params.update(base_params); params.update(overrides);
\* _apply_qualifiers(params, qualifiers)
merged_params(entry, overrides, qualifiers) ==
  LET base_params == IF "params" \in DOMAIN entry THEN entry["params"] ELSE EmptyDict
  IN  _apply_qualifiers(dict_update(dict_update(EmptyDict, base_params), overrides),
                        qualifiers)

\* Variation for C11: a family id that is present counts as renderable,
\* empty or not.
is_renderable_if_present(family_id) == family_id # <<>>

\* resolve.py:133: bool(isinstance(family_id, str) and family_id), with
\* family_id = entry.get("family_id") given as <<>> for None.
is_renderable(family_id) == family_id # <<>> /\ family_id[1] # ""

resolve_package(raw) ==
  LET sq == _split_qualifiers(raw)
      r  == _resolve_to_ids_and_overrides(sq.base)
  IN  IF r.canonical_id = <<>> THEN NoPackage
      ELSE IF outlines_get(r.canonical_id) = <<>> THEN NoPackage
      ELSE LET entry == outlines_get(r.canonical_id)[1]
               family_id == IF "family_id" \in DOMAIN entry
                              THEN <<entry["family_id"]>> ELSE <<>>
           IN  [found |-> TRUE,
                raw_key |-> raw,
                canonical_id |-> r.canonical_id,
                print_id |-> r.print_id,
                family_id |-> family_id,
                params |-> merged_params(entry, r.overrides, sq.qualifiers),
                qualifiers |-> sq.qualifiers,
                is_renderable |-> is_renderable(family_id)]

\* Variation for C9: params bound to the registry's own dict
\* (params = base_params), so that every update writes through.
params_is_registry_dict == FALSE

\* resolve.py:127: the merged params are built in a dict of the call's own,
\* never in the registry's params dict.
params_is_fresh_dict == TRUE

\* OUTLINES as the call leaves it: written through only if the params dict
\* the call fills were the registry's own.
outlines_after_resolve(raw) ==
  LET ret == resolve_package(raw)
  IN  IF params_is_fresh_dict \/ ~ret.found THEN OUTLINES
      ELSE [OUTLINES EXCEPT ![ret.canonical_id] = dict_set(@, "params", ret.params)]

(***************************************************************************)
(* The ReportLab canvas, as far as the drawers use it: the graphics state   *)
(* (fill colour, stroke colour, line width, font), the stack saveState      *)
(* pushes it on and restoreState pops it from, and the operations issued.   *)
(* Colours are <<r, g, b>> in thousandths, sizes are in thousandths.        *)
(***************************************************************************)

black == <<0, 0, 0>>

\* A canvas as the renderer hands it over: nothing drawn, nothing saved.
NewCanvas ==
  [ops |-> <<>>, fill |-> black, stroke |-> black, line_width |-> 1000,
   font |-> <<"Helvetica", 12000>>, stack |-> <<>>, underflow |-> FALSE]

\* The graphics state saveState keeps.
graphics_state(cv) ==
  [fill |-> cv.fill, stroke |-> cv.stroke, line_width |-> cv.line_width,
   font |-> cv.font]

issue(cv, op) == [cv EXCEPT !.ops = Append(@, op)]

saveState(cv) ==
  [issue(cv, <<"saveState">>) EXCEPT !.stack = Append(@, graphics_state(cv))]

\* restoreState without an open save fails; the model records it.
restoreState(cv) ==
  IF cv.stack = <<>> THEN [issue(cv, <<"restoreState">>) EXCEPT !.underflow = TRUE]
  ELSE LET gs == cv.stack[Len(cv.stack)]
       IN  [issue(cv, <<"restoreState">>) EXCEPT
              !.stack = SubSeq(@, 1, Len(@) - 1),
              !.fill = gs.fill, !.stroke = gs.stroke,
              !.line_width = gs.line_width, !.font = gs.font]

\* setFillColor(colour) and setFillColorRGB(r, g, b)
setFillColor(cv, colour) ==
  [issue(cv, <<"setFillColor">>) EXCEPT !.fill = colour]

\* setStrokeColor(colour) and setStrokeColorRGB(r, g, b)
setStrokeColor(cv, colour) ==
  [issue(cv, <<"setStrokeColor">>) EXCEPT !.stroke = colour]

setLineWidth(cv, w) ==
  [issue(cv, <<"setLineWidth">>) EXCEPT !.line_width = w]

setFont(cv, name, size) ==
  [issue(cv, <<"setFont">>) EXCEPT !.font = <<name, size>>]

\* rect, circle, line, ellipse, drawPath, clipPath, linearGradient, ...:
\* operations that paint and leave the graphics state alone.
paint(cv, what) == issue(cv, <<what>>)

\* One canvas call, given as <<name, arguments...>>. A call that paints or
\* writes is logged with the arguments the model keeps (a string's text, the
\* row of a lead).
canvas_call(cv, c) ==
  CASE c[1] = "saveState"      -> saveState(cv)
    [] c[1] = "restoreState"   -> restoreState(cv)
    [] c[1] = "setFillColor"   -> setFillColor(cv, c[2])
    [] c[1] = "setStrokeColor" -> setStrokeColor(cv, c[2])
    [] c[1] = "setLineWidth"   -> setLineWidth(cv, c[2])
    [] c[1] = "setFont"        -> setFont(cv, c[2], c[3])
    [] OTHER                   -> issue(cv, c)

\* The canvas calls of a stretch of code, made in order: each call is made
\* on the canvas the call before it left.
RECURSIVE canvas_calls(_, _)
canvas_calls(cv, cs) ==
  IF cs = <<>> THEN cv
  ELSE CHOOSE done \in { canvas_calls(step[1], step[2]) :
                           step \in { <<canvas_call(cv, Head(cs)), Tail(cs)>> } } :
         TRUE

\* value * num / den on thousandths (rect.height * 0.25 is scaled(h, 25, 100))
scaled(value, num, den) == (value * num) \div den

\* dict.get(key, default)
get(d, key, default) == IF key \in DOMAIN d THEN d[key] ELSE default

\* What a drawer leaves behind: the canvas, and whether it raised.
Drawn(cv) == [canvas |-> cv, raised |-> FALSE]

Raised(cv) == [canvas |-> cv, raised |-> TRUE]

(***************************************************************************)
(* axial_diode.py                                                          *)
(***************************************************************************)

\* axial_diode.py:13-46 and 49-87: both label helpers make the same canvas
\* calls (they differ in where the letters go).
_draw_axial_labels(rect) ==
  << <<"setFillColor", black>>,
     <<"setFont", "Helvetica", scaled(rect.height, 25, 100)>>,
     <<"drawString", "A">>,
     <<"drawString", "K">> >>

\* axial_diode.py:128-147: band_col for the material
axial_band_col(material) ==
  LET material_norm == lower(strip(material))
  IN  IF material_norm \in { <<"g","l","a","s","s">>,
                             <<"m","e","t","a","l","l","i","c">>,
                             <<"b","l","u","e">> }
        THEN <<0, 0, 0>> ELSE <<750, 750, 750>>

\* axial_diode.py:115-178: whether pad_w > 0.0 on the smd path. pad_w is
\* the pad length (pad_end_length, else pad_width, else 0.55 of the
\* diameter; 0 when negative) times body_w / body_length_mm, capped at half
\* of body_w, and body_w is the length scaled by 2 and shrunk to the
\* rectangle: positive when the pad length and the rectangle's sides are.
axial_pad_w_positive(rect, info, body_length_mm, body_diameter_mm) ==
  LET pad_end_length_mm ==
        IF "pad_end_length" \in DOMAIN info THEN info["pad_end_length"]
        ELSE IF "pad_width" \in DOMAIN info THEN info["pad_width"]
        ELSE scaled(body_diameter_mm, 55, 100)
  IN  pad_end_length_mm > 0 /\ rect.width > 0 /\ rect.height > 0

\* Variation for C16: the degenerate test made on the length only.
draw_axial_package_length_only(cv, rect, info, material, show_labels) ==
  LET body_length_mm == get(info, "body_length", get(info, "len", 0))
  IN  IF body_length_mm <= 0 THEN Drawn(cv)
      ELSE Drawn(canvas_calls(cv, << <<"saveState">>, <<"clipPath">>,
                                     <<"linearGradient">>, <<"restoreState">> >>))

\* axial_diode.py:90-271
draw_axial_package(cv, rect, info, material, show_labels) ==
  LET mount_style == lower(strip(get(info, "mount", <<"t","h","t">>)))
      smd == mount_style = <<"s","m","d">>
      body_length_mm == get(info, "body_length", get(info, "len", 0))
      body_diameter_mm == get(info, "body_diameter", get(info, "dia", 0))
  IN  IF body_length_mm <= 0 \/ body_diameter_mm <= 0 THEN Drawn(cv)
      ELSE
        LET pads == smd /\ axial_pad_w_positive(rect, info, body_length_mm,
                                                body_diameter_mm)
            leads == IF smd THEN <<>>
                     ELSE << <<"setStrokeColor", black>>,
                             <<"setLineWidth", 1000>>,
                             <<"line">>, <<"line">> >>
            half == << <<"saveState">>, <<"beginPath">>, <<"clipPath">>,
                       <<"linearGradient">>, <<"restoreState">> >>
            band == << <<"setFillColor", axial_band_col(material)>>,
                       <<"rect">> >>
            caps == IF pads
                      THEN << <<"setFillColor", <<800, 800, 820>> >>,
                              <<"rect">>, <<"rect">> >>
                      ELSE <<>>
            labels == IF show_labels THEN _draw_axial_labels(rect) ELSE <<>>
            reset == << <<"setFillColor", black>>, <<"setStrokeColor", black>> >>
        IN  Drawn(canvas_calls(cv, leads \o half \o half \o band \o caps
                                     \o labels \o reset))

(***************************************************************************)
(* tht_helpers.py, to220.py, to92.py, smd3.py                              *)
(***************************************************************************)

\* getattr(spec, name, default), spec an attribute object or None
getattr(spec, name, default) ==
  IF spec = <<>> THEN default ELSE get(spec[1], name, default)

\* tht_helpers.py:9-15: pc.replace(",", " ").split(), empty parts dropped
parse_pin_config(pin_config) ==
  LET spaced == [i \in 1..Len(pin_config) |->
                   IF pin_config[i] = "," \/ pin_config[i] \in Whitespace
                     THEN " " ELSE pin_config[i]]
  IN  SelectSeq(split(spaced, " "), LAMBDA p : p # <<>>)

Digits == <<"1", "2", "3", "4", "5", "6", "7", "8", "9">>

\* tht_helpers.py:18-24
default_numeric_labels(n) == [i \in 1..n |-> <<Digits[i]>>]

\* The drawString calls of a label loop: the first count labels, upper-cased.
label_calls(final_labels, count) ==
  LET n == IF Len(final_labels) < count THEN Len(final_labels) ELSE count
  IN  [i \in 1..n |-> <<"drawString", upper(final_labels[i])>>]

\* to220.py:21-26
to220_final_labels(pin_count, spec) ==
  IF getattr(spec, "pin_config", <<>>) # <<>>
    THEN parse_pin_config(getattr(spec, "pin_config", <<>>))
  ELSE IF getattr(spec, "pin_labels", <<>>) # <<>>
    THEN getattr(spec, "pin_labels", <<>>)
  ELSE default_numeric_labels(pin_count)

\* tht_helpers.py:27-38: the offsets of the leads from the centre line, in
\* halves of the pitch.
compute_offsets(pin_count) ==
  IF pin_count = 1 THEN <<0>>
  ELSE IF pin_count = 2 THEN <<-2, 2>>
  ELSE [i \in 1..pin_count |-> 2 * (i - 1) - (pin_count - 1)]

\* to220.py:14-170. The sizes are sums and products of the dimensions; the
\* model keeps the divisions, which raise ZeroDivisionError on a zero
\* total, and the canvas calls. A lead's rectangles and a label are logged
\* with the offset of their row.
draw_to220_package(cv, rect, pin_count, spec) ==
  LET final_labels == to220_final_labels(pin_count, spec)
      tab_mm == getattr(spec, "tab_mm", 6500)
      body_mm == getattr(spec, "body_mm", 9500)
      lead_mm == getattr(spec, "lead_mm", 11000)
      tab_finish == lower(getattr(spec, "tab_finish",
                                  <<"m","e","t","a","l","l","i","c">>))
      total_mm == tab_mm + body_mm + lead_mm
      tab == << <<"setFillColor",
                  IF tab_finish = <<"i","n","s","u","l","a","t","e","d">>
                    THEN <<120, 120, 120>> ELSE <<820, 820, 820>> >>,
                <<"rect">>,
                <<"setFillColor", <<1000, 1000, 1000>> >>,
                <<"circle">> >>
      body == << <<"setFillColor", <<120, 120, 120>> >>,
                 <<"rect">>,
                 <<"setFillColor", <<750, 750, 750>> >> >>
      draw_pin_count == IF pin_count = 2 THEN 3 ELSE pin_count
      offsets == compute_offsets(draw_pin_count)
      pin(i) == IF pin_count = 2 /\ i = 2
                  THEN << <<"rect", "lead_step", offsets[i]>> >>
                ELSE << <<"rect", "lead_step", offsets[i]>>,
                        <<"rect", "lead_tail", offsets[i]>> >>
      pins[i \in 0..draw_pin_count] ==
        IF i = 0 THEN <<>> ELSE pins[i - 1] \o pin(i)
      label_indices == IF pin_count = 2 THEN <<1, 3>>
                       ELSE [i \in 1..draw_pin_count |-> i]
      labelled == IF Len(final_labels) < Len(label_indices)
                    THEN Len(final_labels) ELSE Len(label_indices)
      share == IF pin_count <= 4 THEN 20 ELSE 20 - 3 * (pin_count - 4)
      fs == scaled(rect.height, IF share < 10 THEN 10 ELSE share, 100)
      font == << <<"setFont", "Helvetica", fs>>,
                 <<"setFillColor", <<0, 0, 0>> >> >>
      labels == [i \in 1..labelled |->
                   <<"drawString", upper(final_labels[i]),
                     offsets[label_indices[i]]>>]
      reset == << <<"setFillColor", black>>, <<"setStrokeColor", black>> >>
  IN  IF total_mm = 0 THEN Raised(cv)
      ELSE Drawn(canvas_calls(cv, tab \o body \o pins[draw_pin_count]
                                    \o font \o labels \o reset))

\* to92.py:26-29
to92_final_labels(pin_count, spec) ==
  IF getattr(spec, "pin_config", <<>>) # <<>>
    THEN parse_pin_config(getattr(spec, "pin_config", <<>>))
  ELSE default_numeric_labels(pin_count)

\* to92.py:14-119. The division by phys_w comes before the first canvas
\* call, the division by body_h_mm after the body is drawn.
draw_to92_package(cv, rect, pin_count, spec) ==
  LET final_labels == to92_final_labels(pin_count, spec)
      body_h_mm == getattr(spec, "body_h", 4800)
      body_w_mm == getattr(spec, "body_w", 4800)
      lead_len_mm == getattr(spec, "lead_len", 14000)
      phys_w == body_w_mm + lead_len_mm
      body == << <<"setFillColor", <<120, 120, 120>> >>,
                 <<"rect">>,
                 <<"setFillColor", <<750, 750, 750>> >> >>
      leads == << <<"rect">>, <<"rect">>, <<"rect">> >>
      font == << <<"setFont", "Helvetica", scaled(rect.height, 18, 100)>>,
                 <<"setFillColor", <<0, 0, 0>> >> >>
      labels == label_calls(final_labels, 3)
      reset == << <<"setFillColor", black>>, <<"setStrokeColor", black>> >>
  IN  IF phys_w = 0 THEN Raised(cv)
      ELSE IF body_h_mm = 0 THEN Raised(canvas_calls(cv, body))
      ELSE Drawn(canvas_calls(cv, body \o leads \o font \o labels \o reset))

\* smd3.py:33-38
smd3_final_labels(default_pin_labels, spec) ==
  IF getattr(spec, "pin_config", <<>>) # <<>>
    THEN parse_pin_config(getattr(spec, "pin_config", <<>>))
  ELSE IF default_pin_labels # <<>> THEN default_pin_labels
  ELSE default_numeric_labels(3)

\* smd3.py:10-161
draw_smd3_package(cv, rect, info, default_pin_labels, spec) ==
  LET final_labels == smd3_final_labels(default_pin_labels, spec)
      pads == << <<"setFillColor", <<750, 750, 750>> >>,
                 <<"rect">>, <<"rect">>, <<"rect">> >>
      body == << <<"setLineWidth", 1000>>,
                 <<"setFillColor", <<120, 120, 120>> >>,
                 <<"setStrokeColor", <<200, 200, 200>> >>,
                 <<"rect">>,
                 <<"setFillColor", <<600, 600, 600>> >>,
                 <<"circle">> >>
      font == << <<"setFont", "Helvetica", scaled(rect.height, 25, 100)>>,
                 <<"setFillColor", <<0, 0, 0>> >> >>
      labels == [i \in 1..3 |->
                   <<"drawString",
                     IF Len(final_labels) >= i THEN upper(final_labels[i])
                     ELSE <<Digits[i]>> >>]
      reset == << <<"setFillColor", black>>, <<"setStrokeColor", black>> >>
  IN  IF \/ get(info, "body_w", 2900) <= 0 \/ get(info, "body_h", 1300) <= 0
         \/ get(info, "pad2_w", 410) <= 0 \/ get(info, "pad2_h", 600) <= 0
         \/ get(info, "pad1_w", 410) <= 0 \/ get(info, "pad1_h", 600) <= 0
         \/ get(info, "pad2_pitch", 1900) <= 0
        THEN Drawn(cv)
      ELSE Drawn(canvas_calls(cv, pads \o body \o font \o labels \o reset))

(***************************************************************************)
(* capacitor_disc.py, to204.py and their helpers                           *)
(***************************************************************************)

DecimalDigits == <<"0", "1", "2", "3", "4", "5", "6", "7", "8", "9">>

\* float(text) of a string of decimal digits, in thousandths; <<>> where
\* float raises ValueError (no digits, or a character that is no digit).
RECURSIVE float_of_digits(_, _)
float_of_digits(text, sofar) ==
  IF text = <<>> THEN <<sofar * 1000>>
  ELSE IF \E d \in 1..10 : DecimalDigits[d] = Head(text)
    THEN float_of_digits(Tail(text),
           10 * sofar + (CHOOSE d \in 1..10 : DecimalDigits[d] = Head(text)) - 1)
  ELSE <<>>

\* capacitor_disc.py:51-63: the loop over pkg.qualifiers, for one of the
\* two prefixes; the last qualifier that parses wins.
RECURSIVE qualifier_float(_, _, _)
qualifier_float(qualifiers, prefix, default) ==
  IF qualifiers = <<>> THEN default
  ELSE LET q == Head(qualifiers)
           parsed == IF Len(q) > 1 THEN float_of_digits(Tail(q), 0) ELSE <<>>
           mine == q # <<>> /\ q[1] = prefix
           next == IF mine /\ parsed # <<>> THEN <<parsed[1]>> ELSE default
       IN  qualifier_float(Tail(qualifiers), prefix, next)

\* Variation for C18: the sleeve helper saving the state before its test
\* of the segment length.
_draw_kink_sleeve_half_save_first(cv, dx, dy, fill_col) ==
  IF dx = 0 /\ dy = 0 THEN saveState(cv)
  ELSE canvas_calls(cv, << <<"saveState">>, <<"roundRect">>,
                           <<"restoreState">> >>)

\* capacitor_disc.py:248-306. seg_len = sqrt(dx*dx + dy*dy) is zero when
\* both differences are.
_draw_kink_sleeve_half(cv, dx, dy, fill_col) ==
  IF dx = 0 /\ dy = 0 THEN cv
  ELSE canvas_calls(cv, << <<"saveState">>, <<"translate">>, <<"rotate">>,
                           <<"setFillColor", fill_col>>,
                           <<"setStrokeColor", fill_col>>,
                           <<"setLineWidth", 600>>,
                           <<"roundRect">>,
                           <<"restoreState">> >>)

\* capacitor_disc.py:42-217, called without a capacitor spec (no marking)
\* and with a diameter that is not negative. disc_w is the diameter scaled
\* by 2 and shrunk to the rectangle. The kink runs from the lead's exit,
\* body_r * 0.28 off the centre, to pitch / 2 off the centre: its length is
\* zero when the disc is scaled to nothing, and positive otherwise for the
\* pitches drawn here, which are away from 0.28 * body_d_mm.
draw_capacitor_disc(cv, rect, pkg) ==
  LET override_d_mm == qualifier_float(pkg.qualifiers, "d", <<>>)
      colours == SelectSeq(pkg.qualifiers,
                           LAMBDA q : q \in { <<"y","e","l","l","o","w">>,
                                              <<"b","l","u","e">> })
      blue == colours # <<>> /\ colours[Len(colours)] = <<"b","l","u","e">>
      body_col == IF blue THEN <<0, 686, 835>> ELSE <<886, 678, 345>>
      ink_col == IF blue THEN <<157, 388, 549>> ELSE <<761, 498, 286>>
      body_d_mm == IF override_d_mm # <<>> THEN override_d_mm[1]
                   ELSE get(pkg.params, "body_diameter_mm", 7000)
      lead_d_mm == get(pkg.params, "lead_diameter_mm", 600)
      fits == IF rect.width < rect.height THEN rect.width ELSE rect.height
      disc_w == IF 2 * body_d_mm < fits THEN 2 * body_d_mm ELSE fits
      lead_w == IF (lead_d_mm * disc_w) \div body_d_mm < 800 THEN 800
                ELSE (lead_d_mm * disc_w) \div body_d_mm
      kink == IF disc_w > 0 THEN 1 ELSE 0
      leads == << <<"saveState">>,
                  <<"setStrokeColor", <<800, 800, 800>> >>,
                  <<"setLineWidth", lead_w>>,
                  <<"beginPath">>, <<"drawPath">>,
                  <<"beginPath">>, <<"drawPath">> >>
      disc == << <<"setFillColor", body_col>>,
                 <<"setStrokeColor", ink_col>>,
                 <<"setLineWidth", 1000>>,
                 <<"circle">>,
                 <<"restoreState">> >>
  IN  IF body_d_mm = 0 THEN Raised(cv)
      ELSE Drawn(canvas_calls(
                   _draw_kink_sleeve_half(
                     _draw_kink_sleeve_half(canvas_calls(cv, leads),
                                            kink, kink, ink_col),
                     kink, kink, ink_col),
                   disc))

\* tht_helpers.py:117-158
draw_pin_with_ring ==
  << <<"saveState">>,
     <<"setStrokeColor", <<100, 350, 900>> >>, <<"setLineWidth", 400>>,
     <<"circle">>,
     <<"setFillColor", <<920, 920, 920>> >>, <<"setLineWidth", 600>>,
     <<"circle">>,
     <<"restoreState">> >>

\* to204.py:24-50
_resolve_pin_labels(pin_count, spec, is_body_pin) ==
  IF getattr(spec, "pin_config", <<>>) # <<>>
    THEN parse_pin_config(getattr(spec, "pin_config", <<>>))
  ELSE IF getattr(spec, "pin_labels", <<>>) # <<>>
    THEN getattr(spec, "pin_labels", <<>>)
  ELSE default_numeric_labels(pin_count + (IF is_body_pin THEN 1 ELSE 0))

\* to204.py:683: the index of the label of the first lead.
label_index_offset(is_body_pin) == IF is_body_pin THEN 1 ELSE 0

\* to204.py:545-715 with the default dimensions. The pins lie on a ring of
\* radius min(tip_dx, tip_dy) * 0.5 about the centre, which is zero when the
\* rectangle has no width or no height: draw_radial_pin_label
\* (tht_helpers.py:160-215) then returns without drawing the label.
draw_to204_package(cv, rect, pin_count, is_body_pin, device_spec) ==
  LET pins == IF pin_count < 1 THEN 1
              ELSE IF pin_count > 15 THEN 15 ELSE pin_count
      final_labels == _resolve_pin_labels(pins, device_spec, is_body_pin)
      on_ring == rect.width > 0 /\ rect.height > 0
      base == << <<"saveState">>,
                 <<"beginPath">>,
                 <<"setFillColor", <<780, 770, 760>> >>,
                 <<"setStrokeColor", <<680, 670, 660>> >>,
                 <<"setLineWidth", 1000>>,
                 <<"drawPath">>,
                 <<"setFillColor", <<1000, 1000, 1000>> >>,
                 <<"circle">>, <<"circle">> >>
      rings[i \in 0..pins] ==
        IF i = 0 THEN <<>> ELSE rings[i - 1] \o draw_pin_with_ring
      font == << <<"setFont", "Helvetica", scaled(rect.height, 16, 100)>>,
                 <<"setFillColor", <<0, 0, 0>> >> >>
      body_label == IF is_body_pin /\ Len(final_labels) >= 1
                      THEN << <<"drawRightString", upper(final_labels[1])>> >>
                      ELSE <<>>
      offset == label_index_offset(is_body_pin)
      labelled == IF Len(final_labels) - offset < pins
                    THEN Len(final_labels) - offset ELSE pins
      pin_labels == IF on_ring /\ labelled > 0
                      THEN [i \in 1..labelled |->
                              <<"drawCentredString",
                                upper(final_labels[i + offset]),
                                i - 1>>]
                      ELSE <<>>
  IN  Drawn(canvas_calls(cv, base \o rings[pins] \o font \o body_label
                               \o pin_labels \o << <<"restoreState">> >>))

(***************************************************************************)
(* registry.py: the dispatch table.                                        *)
(***************************************************************************)

register_family(FD, family_id, drawer) ==
  IF family_id # "" THEN dict_set(FD, family_id, drawer) ELSE FD

\* registry.py:459-477, in order.
family_registrations ==
  << <<"axial_round_body", "_draw_axial_round_body">>,
     <<"melf", "_draw_melf">>,
     <<"capacitor_disc", "_draw_capacitor_disc">>,
     <<"to92_moulded", "_draw_to92_moulded">>,
     <<"to204_diamond", "_draw_to204_diamond">>,
     <<"to205_package", "_draw_to205_package">>,
     <<"to206_package", "_draw_to206_package">>,
     <<"to218_tab", "_draw_to218_tab">>,
     <<"to220_tab", "_draw_to220_tab">>,
     <<"to225_tab", "_draw_to225_tab">>,
     <<"to243_tab", "_draw_to243_tab">>,
     <<"to247_tab", "_draw_to247_tab">>,
     <<"to264_body", "_draw_to264_body">>,
     <<"smd_2pad", "_draw_smd_2pad">>,
     <<"smd_3lead", "_draw_smd_3lead">>,
     <<"smd_4lead", "_draw_smd_4lead">>,
     <<"led_tht_round", "_draw_led_tht_round">> >>

\* Variation for C29: the last registration of the list is not made.
RECURSIVE register_families_but_last(_, _)
register_families_but_last(FD, regs_) ==
  IF Len(regs_) <= 1 THEN FD
  ELSE register_families_but_last(
         register_family(FD, Head(regs_)[1], Head(regs_)[2]), Tail(regs_))

RECURSIVE register_families(_, _)
register_families(FD, regs_) ==
  IF regs_ = <<>> THEN FD
  ELSE register_families(register_family(FD, Head(regs_)[1], Head(regs_)[2]),
                         Tail(regs_))

(***************************************************************************)
(* api.py and layout/label_text.py                                         *)
(***************************************************************************)

\* Variation for C13: the canonical id printed instead of the print id.
format_package_canonical(raw) ==
  LET resolved == resolve_package(raw)
  IN  IF ~resolved.found THEN raw ELSE resolved.canonical_id

\* api.py:16-26
format_package_for_text(raw) ==
  LET resolved == resolve_package(raw)
  IN  IF ~resolved.found THEN raw ELSE resolved.print_id

\* layout/label_text.py:6-13
label_text_format_package_for_text(pkg) == format_package_for_text(pkg)

\* registry.py:51-76: the package parameters as an attribute object, with
\* the device spec's pin_config and pin_labels.
_merge_package_and_device_spec(pkg, device_spec) ==
  LET from_spec == IF device_spec = <<>> THEN {}
                   ELSE {"pin_config", "pin_labels"} \cap DOMAIN device_spec[1]
  IN  <<[k \in DOMAIN pkg.params \cup from_spec |->
           IF k \in from_spec THEN device_spec[1][k] ELSE pkg.params[k]]>>

\* registry.py:103-456: drawer(canvas, rect, pkg, spec) for the drawer the
\* table holds. The wrappers of the drawers above call them as the registry
\* does; each other wrapper counts as one canvas call under its name.
call_drawer(drawer, cv, rect, pkg, spec) ==
  LET merged == _merge_package_and_device_spec(pkg, spec)
  IN  CASE drawer = "_draw_to92_moulded" ->
             draw_to92_package(cv, rect, get(pkg.params, "pin_count", 3), merged)
        [] drawer = "_draw_to220_tab" ->
             draw_to220_package(cv, rect, get(pkg.params, "pin_count", 3),
                                merged)
        [] drawer = "_draw_to204_diamond" ->
             draw_to204_package(cv, rect, get(pkg.params, "pin_count", 2),
                                get(pkg.params, "is_body_pin", FALSE), spec)
        [] drawer = "_draw_smd_3lead" ->
             draw_smd3_package(cv, rect, pkg.params,
                               get(pkg.params, "pin_labels", <<>>), spec)
        [] drawer = "_draw_capacitor_disc" ->
             draw_capacitor_disc(cv, rect, pkg)
        [] OTHER -> Drawn(paint(cv, drawer))

\* Variation for C12: a family without a drawer drawn by a default drawer
\* (FAMILY_DRAWERS.get(family_id, default)).
draw_package_default_drawer(cv, rect, raw, spec) ==
  LET resolved == resolve_package(raw)
      none == [canvas |-> cv, raised |-> FALSE, invoked |-> <<>>]
  IN  IF raw = <<>> THEN none
      ELSE IF ~resolved.found THEN none
      ELSE IF ~resolved.is_renderable THEN none
      ELSE IF resolved.family_id = <<>> THEN none
      ELSE LET drawer == IF resolved.family_id[1] \in DOMAIN FAMILY_DRAWERS
                           THEN FAMILY_DRAWERS[resolved.family_id[1]]
                           ELSE "_draw_axial_round_body"
               d == call_drawer(drawer, cv, rect, resolved, spec)
           IN  [canvas |-> d.canvas, raised |-> d.raised, invoked |-> <<drawer>>]

\* api.py:29-58
draw_package(cv, rect, raw, spec) ==
  LET resolved == resolve_package(raw)
      none == [canvas |-> cv, raised |-> FALSE, invoked |-> <<>>]
  IN  IF raw = <<>> THEN none
      ELSE IF ~resolved.found THEN none
      ELSE IF ~resolved.is_renderable THEN none
      ELSE IF resolved.family_id = <<>> THEN none
      ELSE IF resolved.family_id[1] \notin DOMAIN FAMILY_DRAWERS THEN none
      ELSE LET drawer == FAMILY_DRAWERS[resolved.family_id[1]]
               d == call_drawer(drawer, cv, rect, resolved, spec)
           IN  [canvas |-> d.canvas, raised |-> d.raised, invoked |-> <<drawer>>]

(***************************************************************************)
(* Inputs.                                                                 *)
(***************************************************************************)

\* Longest qualifier list appended to a raw string.
MaxQuals == 2

\* Most registrations made one by one in RegSpec.
MaxRegs == 3

\* Qualifier segments as typed: recognised and unrecognised ones, one that
\* needs lowercasing, one that needs trimming, an empty one.
QualSegments ==
  { <<"g","l","a","s","s">>, <<"B","l","u","e">>, <<" ","F">>,
    <<"x">>, <<"y">>, <<>> }

QualLists(n) == UNION { [1..k -> QualSegments] : k \in 0..n }

\* "@q1@q2..."
RECURSIVE qualifier_suffix(_)
qualifier_suffix(qs) ==
  IF qs = <<>> THEN <<>>
  ELSE <<"@">> \o Head(qs) \o qualifier_suffix(Tail(qs))

UnknownKeys ==
  { <<"U","N","K","N","O","W","N","P","K","G","1","2","3">>, <<>> }

\* Every key and id the registry holds.
KnownKeys ==
  DOMAIN OUTLINES \cup DOMAIN PACKAGE_ALIASES \cup DOMAIN PACKAGE_VARIANTS

Styles == {"lower", "padded", "underscore", "space", "tab", "underscore_tab"}

\* A base key as a user may type it.
decorate(b, style) ==
  CASE style = "lower"          -> lower(b)
    [] style = "padded"         -> <<" ">> \o b \o <<" ">>
    [] style = "underscore"     -> IF b = <<>> THEN <<"_">>
                                   ELSE <<Head(b), "_">> \o Tail(b)
    [] style = "space"          -> IF b = <<>> THEN <<" ">>
                                   ELSE <<Head(b), " ">> \o Tail(b)
    [] style = "tab"            -> <<"\t">> \o b
    [] style = "underscore_tab" -> <<"_", "\t">> \o b

\* Keys resolved with every qualifier list: variants with and without a
\* finish override, a variant alias, aliases, renderable and catalogue-only
\* outlines, an alias key that is also an outline id, an id that is not in
\* normalised form, an unknown key and the empty key.
\* The raw strings resolved after the passes ran in either order: every key
\* of the tables and two unknown strings.
OrderRaws == KnownKeys \cup UnknownKeys

QualifiedBases ==
  { <<"T","O","-","2","2","0","-","F">>,
    <<"T","O","-","2","2","0","-","A","A">>,
    <<"T","O","-","2","2","0","-","5">>,
    <<"D","O","-","3","5">>,
    <<"L","E","D","5","M","M">>,
    <<"D","O","-","2","0","4","-","A","L">>,
    <<"T","O","-","9","2">>,
    <<"T","O","-","2","2","0">>,
    <<"D","O","-","2","1","7">>,
    <<"5","M","M"," ","R","O","U","N","D"," ","T","/","H">>,
    <<"U","N","K","N","O","W","N","P","K","G","1","2","3">>,
    <<>> }

\* Raw strings resolved against the seeded registry: every key with at most
\* one qualifier, every key in every style, and the keys above with every
\* qualifier list and in every style with at most one qualifier.
SeededRaws ==
  LET bases == KnownKeys \cup UnknownKeys
  IN  { b \o qualifier_suffix(qs) : b \in bases, qs \in QualLists(1) }
      \cup
      { decorate(b, st) : b \in bases, st \in Styles }
      \cup
      { b \o qualifier_suffix(qs) :
          b \in QualifiedBases, qs \in QualLists(MaxQuals) }
      \cup
      { decorate(b, st) \o qualifier_suffix(qs) :
          b \in QualifiedBases, st \in Styles, qs \in QualLists(1) }

\* The string whose first call is remembered, to compare later calls with.
ProbeRaws ==
  { <<"T","O","-","2","2","0","-","5","@","x","@","g","l","a","s","s">> }

\* Arguments of the registrations made one by one.
RegOutlineIds == { <<"A">>, <<"B">> }
RegFamilies == { <<>>, <<"">>, <<"to92_moulded">> }
RegParams == { <<>>, <<[len |-> 1000, material |-> <<"g","l","a","s","s">>]>> }
RegOutlineAliases == { <<>>, << <<"a">> >> }
RegAliases == { <<"a">>, <<" ","b","_">> }
RegAliasTargets == { <<"A">>, <<"B">>, <<"C">> }
RegVariantIds == { <<"a">>, <<>> }
RegVariantBases == { <<"B">>, <<"C">> }
RegOverrides == { EmptyDict, [len |-> 3000] }
RegVariantAliases == { <<>>, << <<"b">> >> }

\* Arguments of scale_physical, as decimal literals <<n, d>> for n/d:
\* rectangle widths 0, 7, 40 and heights 0, 1, 12; physical sizes 0, 0.5,
\* 3.9, 12.5 by 0, 1, 1.7 millimetres; scale factors 0, 0.5, 2.
ScaleWidths == { <<0, 1>>, <<7, 1>>, <<40, 1>> }
ScaleHeights == { <<0, 1>>, <<1, 1>>, <<12, 1>> }
ScaleMmW == { <<0, 1>>, <<1, 2>>, <<39, 10>>, <<25, 2>> }
ScaleMmH == { <<0, 1>>, <<1, 1>>, <<17, 10>> }
ScaleFactors == { <<0, 1>>, <<1, 2>>, <<2, 1>> }

\* The floats the literals denote.
Floats(literals) == { float_lit(x[1], x[2]) : x \in literals }

\* Graphics states the renderers leave on the canvas a drawer is handed:
\* the canvas defaults, and the state after a label's text was drawn (the
\* label font at the size of the specification lines, the divider's line
\* width). The renderers leave both colours black.
CallerStates ==
  { [fill |-> black, stroke |-> black, line_width |-> 1000,
     font |-> <<"Helvetica", 12000>>],
    [fill |-> black, stroke |-> black, line_width |-> 600,
     font |-> <<"Helvetica-Bold", 8000>>] }

\* Parameter dicts handed to draw_axial_package, lengths in thousandths of a
\* millimetre: DO-35 and DO-41 as registered, a MELF with and without pads
\* of positive width, and dicts whose length or diameter is zero, negative
\* or missing.
AxialInfos ==
  { [len |-> 3900, dia |-> 1700],
    [body_length |-> 5200, body_diameter |-> 2700, len |-> 0],
    [mount |-> <<"s","m","d">>, len |-> 3500, dia |-> 1400],
    [mount |-> <<" ","S","M","D">>, len |-> 3500, dia |-> 1400,
     pad_width |-> 0],
    [mount |-> <<"s","m","d">>, len |-> 3500, dia |-> 1400,
     pad_end_length |-> -500],
    [body_length |-> 0, body_diameter |-> 1700],
    [len |-> 3900, dia |-> 0],
    [len |-> -3900, dia |-> 1700],
    [len |-> 3900],
    [dia |-> 1700, mount |-> <<"s","m","d">>],
    EmptyDict }

AxialMaterials == { <<"g","l","a","s","s">>, <<>> }

\* Device pin metadata on the attribute object a drawer is handed: none, a
\* pin configuration, a list of pin labels, both, and an empty pin
\* configuration beside a list of pin labels.
PinSpecs ==
  { <<>>,
    <<[pin_config |-> <<"e"," ","c"," ","b">>]>>,
    <<[pin_labels |-> << <<"g">>, <<"d">>, <<"s">> >>]>>,
    <<[pin_config |-> <<"G",","," ","D",",","S">>,
       pin_labels |-> << <<"a">>, <<"k">>, <<"n","c">> >>]>>,
    <<[pin_config |-> <<>>, pin_labels |-> << <<"i","n">>, <<"o","u","t">> >>]>> }

\* pin_count of the TO-220 outlines (2 to 7 pins), and the two ends.
To220PinCounts == {2, 3, 5, 7}

\* Attribute objects for draw_to220_package: the pin metadata, an insulated
\* tab, and dimensions of zero.
To220Specs ==
  PinSpecs \cup
  { <<[tab_finish |-> <<"I","n","s","u","l","a","t","e","d">>]>>,
    <<[width_mm |-> 0]>>,
    <<[tab_mm |-> 0]>>,
    <<[tab_mm |-> 0, body_mm |-> 0, lead_mm |-> 0]>> }

\* Attribute objects for draw_to92_package.
To92Specs ==
  PinSpecs \cup
  { <<[body_h |-> 0]>>,
    <<[lead_pitch |-> 0]>>,
    <<[body_w |-> 0, lead_len |-> 0]>> }

\* Parameter dicts for draw_smd3_package: SOT-23 defaults, given sizes, and
\* a zero or negative size in each group the drawer tests.
Smd3Infos ==
  { EmptyDict,
    [body_w |-> 2900, body_h |-> 1300, pad2_pitch |-> 1900],
    [body_w |-> 0],
    [body_h |-> -1300],
    [pad2_w |-> 0],
    [pad1_h |-> 0],
    [pad2_pitch |-> 0] }

\* Qualifier lists of a resolved disc capacitor: none, a pitch, a diameter,
\* a diameter of zero, a diameter that is no number after one that is, and
\* a colour.
DiscQualifiers ==
  { <<>>,
    << <<"p","2">> >>,
    << <<"d","1","2">>, <<"p","5">> >>,
    << <<"d","0">> >>,
    << <<"d","9">>, <<"d","x">> >>,
    << <<"b","l","u","e">> >> }

\* pin_count of the TO-204 outlines, and values the drawer clamps.
To204PinCounts == {0, 2, 3}

Smd3DefaultLabels == { <<>>, << <<"b">>, <<"e">>, <<"c">> >> }

\* Family ids handed to register_family one by one.
RegDrawerFamilies == { "", "to92_moulded", "smd_2pad" }

\* Target rectangles: a label's package box, and one without height.
PackageBox == [left |-> 0, bottom |-> 0, width |-> 40000, height |-> 12000]

Rects ==
  { PackageBox,
    [left |-> 5000, bottom |-> 2000, width |-> 30000, height |-> 0] }

\* Device specs: None, a transistor spec with a pin configuration, and one
\* with a list of pin labels.
DeviceSpecs ==
  { <<>>,
    <<[pin_config |-> <<"e"," ","c"," ","b">>]>>,
    <<[pin_labels |-> << <<"g">>, <<"d">>, <<"s">> >>]>> }

\* Raw strings drawn and formatted with the seeded registry: every key, and
\* the keys resolved with qualifiers in every style with a qualifier.
ApiRaws ==
  KnownKeys \cup UnknownKeys
  \cup { decorate(b, st) \o qualifier_suffix(qs) :
           b \in QualifiedBases, st \in Styles, qs \in QualLists(1) }

RegRaws ==
  { <<"A">>, <<"a">>, <<" ","b","_">>, <<"B","@","x">>, <<"C">>, <<>>,
    <<"@">>, <<"@","g","l","a","s","s">> }

(***************************************************************************)
(* State machine.                                                          *)
(***************************************************************************)

Tables ==
  [OUTLINES |-> OUTLINES, PACKAGE_ALIASES |-> PACKAGE_ALIASES,
   PACKAGE_VARIANTS |-> PACKAGE_VARIANTS]

SetTables(T) ==
  /\ OUTLINES' = T.OUTLINES
  /\ PACKAGE_ALIASES' = T.PACKAGE_ALIASES
  /\ PACKAGE_VARIANTS' = T.PACKAGE_VARIANTS

NoIds == [canonical_id |-> <<>>, print_id |-> <<>>, overrides |-> EmptyDict]

NoMemo == [set |-> FALSE]

\* No call of the package API is under way.
NoCall == [op |-> "none"]

\* The canvas when a call starts: the operations of the last call are no
\* longer looked at.
Fresh(cv) == [cv EXCEPT !.ops = <<>>]

(***************************************************************************)
(* to204.py: the vector helpers, the fillet and tangent routines and the   *)
(* outline path. A length is held in thousandths of a pixel, a point as    *)
(* <<x, y>>. The product and the quotient of two such values are brought   *)
(* back to thousandths and rounded down; a square root is rounded down.    *)
(* A tolerance of 1.0e-6 or less is below one thousandth, so "<= 1.0e-6"   *)
(* is "<= 0" here. An angle of acos is held by its cosine and its sine     *)
(* (it lies between 0 and pi), and the functions of its half are computed  *)
(* from these. The start angle and the extent of an arc, which the code    *)
(* gets from atan2, are not computed: atan2 takes every pair of numbers.   *)
(***************************************************************************)

pmul(a, b) == (a * b) \div 1000
pdiv(a, b) == (a * 1000) \div b
pabs(a) == IF a < 0 THEN -a ELSE a
pmin(a, b) == IF b < a THEN b ELSE a
pmax(a, b) == IF b > a THEN b ELSE a

\* The largest r in lo..hi with r * r <= n.
RECURSIVE isqrt_between(_, _, _)
isqrt_between(n, lo, hi) ==
  IF lo >= hi THEN lo
  ELSE LET mid == (lo + hi + 1) \div 2
       IN  IF mid * mid <= n THEN isqrt_between(n, mid, hi)
           ELSE isqrt_between(n, lo, mid - 1)

isqrt(n) == isqrt_between(n, 0, 46340)

\* A call that returned x, and one that raised. None is <<>>, a value v is
\* <<v>>.
Returns(x) == [raised |-> "", out |-> x]
Raises(error) == [raised |-> error, out |-> <<>>]

\* math.acos: a ValueError outside [-1, 1].
acos(x) ==
  IF x < -1000 \/ x > 1000 THEN [defined |-> FALSE]
  ELSE [defined |-> TRUE, cos |-> x, sin |-> isqrt(1000000 - x * x)]

\* tan(phi * 0.5) = sin(phi) / (1 + cos(phi)) and
\* sin(phi * 0.5) = sqrt((1 - cos(phi)) / 2), for phi below pi.
tan_half(phi) == pdiv(phi.sin, 1000 + phi.cos)
sin_half(phi) == isqrt((1000 - phi.cos) * 500)

\* tht_helpers.py:56-68
clamp_float(value, minimum, maximum) ==
  IF value < minimum THEN minimum
  ELSE IF value > maximum THEN maximum
  ELSE value

\* to204.py:86-134
_v_sub(a, b) == <<a[1] - b[1], a[2] - b[2]>>
_v_add(a, b) == <<a[1] + b[1], a[2] + b[2]>>
_v_mul(a, s) == <<pmul(a[1], s), pmul(a[2], s)>>
_v_len(a) == isqrt(a[1] * a[1] + a[2] * a[2])

_v_unit(a) ==
  LET l == _v_len(a)
  IN  IF l <= 0 THEN <<0, 0>> ELSE <<pdiv(a[1], l), pdiv(a[2], l)>>

\* to204.py:137-144
_v_dot(a, b) == pmul(a[1], a[1]) + pmul(a[2], b[2])

\* to204.py:160-173
_rotate_point_about_centre_90_deg(centre, point) ==
  <<centre[1] - (point[2] - centre[2]), centre[2] + (point[1] - centre[1])>>

\* to204.py:175-207: the four edges of the diamond have one length.
_safe_corner_radius_for_diamond(tip_dx, tip_dy, requested_r) ==
  IF requested_r <= 0 THEN 0
  ELSE LET edge_len == _v_len(<<tip_dx, tip_dy>>)
           max_r == pmin(requested_r, pmul(edge_len, 450))
       IN  clamp_float(max_r, 0, pmul(pmin(tip_dx, tip_dy), 490))

\* abs(degrees(atan2(cross, dotp))) <= 0.1: the direction of (dotp, cross)
\* is within a tenth of a degree of the positive axis; tan(0.1 degrees) is
\* 1 / 573.
extent_within_tenth(cross, dotp) == dotp >= 0 /\ pabs(cross) * 573 <= dotp

\* to204.py:210-281. The result is None or the tuple (t1, t2, centre). A
\* radius clamped to max_radius, divided by the tangent, gives max_t_dist
\* back or a value just below it, as the rounding of the product and of the
\* quotient falls: `slack`, 0 or 1, is that rounding.
_fillet_arc_for_corner(prev_pt, corner_pt, next_pt, radius, slack) ==
  LET v_prev == _v_sub(prev_pt, corner_pt)
      v_next == _v_sub(next_pt, corner_pt)
      len_prev == _v_len(v_prev)
      len_next == _v_len(v_next)
      v1 == _v_unit(v_prev)
      v2 == _v_unit(v_next)
      dot == clamp_float(_v_dot(v1, v2), -1000, 1000)
      phi == acos(dot)
      tan_h == tan_half(phi)
      max_t_dist == pmul(pmin(len_prev, len_next), 490)
      max_radius == pmul(max_t_dist, pabs(tan_h))
      r == clamp_float(radius, 0, max_radius)
      t_dist == IF r = max_radius THEN max_t_dist - slack
                ELSE pdiv(r, pabs(tan_h))
      sine == pmax(sin_half(phi), 1)
      offset == pdiv(r, sine)
      bis == _v_unit(_v_add(v1, v2))
      centre == _v_add(corner_pt, _v_mul(bis, offset))
      t1 == _v_add(corner_pt, _v_mul(v1, t_dist))
      t2 == _v_add(corner_pt, _v_mul(v2, t_dist))
      u1 == _v_sub(t1, centre)
      u2 == _v_sub(t2, centre)
      cross == pmul(u1[1], u2[2]) - pmul(u1[2], u2[1])
      dotp == pmul(u1[1], u2[1]) + pmul(u1[2], u2[2])
  IN  IF radius <= 10 THEN Returns(<<>>)
      ELSE IF len_prev <= 0 \/ len_next <= 0 THEN Returns(<<>>)
      ELSE IF ~phi.defined THEN Raises("ValueError")
      ELSE IF phi.cos >= 1000 THEN Returns(<<>>)
      ELSE IF phi.cos <= -1000 THEN Returns(<<>>)
      ELSE IF pabs(tan_h) <= 0 THEN Returns(<<>>)
      ELSE IF r <= 10 THEN Returns(<<>>)
      ELSE IF pabs(tan_h) = 0 THEN Raises("ZeroDivisionError")
      ELSE IF t_dist >= max_t_dist THEN Returns(<<>>)
      ELSE IF sine = 0 THEN Raises("ZeroDivisionError")
      ELSE IF extent_within_tenth(cross, dotp) THEN Returns(<<>>)
      ELSE Returns(<< <<t1, t2, centre>> >>)

\* Variation for C22: the tangent points are computed for a point inside
\* the circle too.
_tangent_points_of_any_point(point, circle_centre, circle_r) ==
  LET r == circle_r
      vx == point[1] - circle_centre[1]
      vy == point[2] - circle_centre[2]
      d == isqrt(vx * vx + vy * vy)
      ux == pdiv(vx, d)
      uy == pdiv(vy, d)
      alpha == acos(clamp_float(pdiv(r, d), -1000, 1000))
      p1 == <<circle_centre[1] + pmul(r, pmul(ux, alpha.cos) + pmul(-uy, alpha.sin)),
              circle_centre[2] + pmul(r, pmul(uy, alpha.cos) + pmul(ux, alpha.sin))>>
      p2 == <<circle_centre[1] + pmul(r, pmul(ux, alpha.cos) - pmul(-uy, alpha.sin)),
              circle_centre[2] + pmul(r, pmul(uy, alpha.cos) - pmul(ux, alpha.sin))>>
  IN  IF r <= 0 THEN Returns(<<>>)
      ELSE IF d = 0 THEN Raises("ZeroDivisionError")
      ELSE IF ~alpha.defined THEN Raises("ValueError")
      ELSE IF p1[2] >= p2[2] THEN Returns(<< <<p1, p2>> >>)
      ELSE Returns(<< <<p2, p1>> >>)

\* to204.py:338-384. The result is None or (upper_tangent, lower_tangent).
_tangent_points_from_external_point_to_circle(point, circle_centre, circle_r) ==
  LET r == circle_r
      vx == point[1] - circle_centre[1]
      vy == point[2] - circle_centre[2]
      d == isqrt(vx * vx + vy * vy)
      ux == pdiv(vx, d)
      uy == pdiv(vy, d)
      alpha == acos(clamp_float(pdiv(r, d), -1000, 1000))
      p1 == <<circle_centre[1] + pmul(r, pmul(ux, alpha.cos) + pmul(-uy, alpha.sin)),
              circle_centre[2] + pmul(r, pmul(uy, alpha.cos) + pmul(ux, alpha.sin))>>
      p2 == <<circle_centre[1] + pmul(r, pmul(ux, alpha.cos) - pmul(-uy, alpha.sin)),
              circle_centre[2] + pmul(r, pmul(uy, alpha.cos) - pmul(ux, alpha.sin))>>
  IN  IF r <= 0 \/ d <= r THEN Returns(<<>>)
      ELSE IF d = 0 THEN Raises("ZeroDivisionError")
      ELSE IF ~alpha.defined THEN Raises("ValueError")
      ELSE IF p1[2] >= p2[2] THEN Returns(<< <<p1, p2>> >>)
      ELSE Returns(<< <<p2, p1>> >>)

\* to204.py:284-309: the arc of a box, added to the path.
_path_arc_connected(c, r) ==
  <<"arcTo", c[1] - r, c[2] - r, c[1] + r, c[2] + r>>

\* The lines and the arc of one side corner: the corner itself when it has
\* no fillet.
corner_path(fillet, corner_pt, r) ==
  IF fillet = <<>> THEN << <<"lineTo", corner_pt[1], corner_pt[2]>> >>
  ELSE << <<"lineTo", fillet[1][1][1], fillet[1][1][2]>>,
          _path_arc_connected(fillet[1][3], r),
          <<"lineTo", fillet[1][2][1], fillet[1][2][2]>> >>

\* to204.py:387-542. The result is the path, as the calls made on it; slack
\* is the rounding in the right and in the left fillet.
_build_to3_outline_path(cx, cy, tip_dx, tip_dy, variable_corner_r, centre_arc_r, slack) ==
  LET centre == <<cx, cy>>
      pts0 == << <<cx, cy + tip_dy>>, <<cx + tip_dx, cy>>,
                 <<cx, cy - tip_dy>>, <<cx - tip_dx, cy>> >>
      pts == [i \in 1..4 |-> _rotate_point_about_centre_90_deg(centre, pts0[i])]
      left_corner_pt == pts[1]
      right_corner_pt == pts[3]
      corner_r == _safe_corner_radius_for_diamond(tip_dx, tip_dy,
                                                  variable_corner_r)
      arc_r == clamp_float(centre_arc_r, 0, pmax(tip_dx, tip_dy) * 3)
      left_tangents == _tangent_points_from_external_point_to_circle(
                         left_corner_pt, centre, arc_r)
      right_tangents == _tangent_points_from_external_point_to_circle(
                          right_corner_pt, centre, arc_r)
      left_upper == left_tangents.out[1][1]
      left_lower == left_tangents.out[1][2]
      right_upper == right_tangents.out[1][1]
      right_lower == right_tangents.out[1][2]
      right_fillet == _fillet_arc_for_corner(right_upper, right_corner_pt,
                                             right_lower, corner_r, slack[1])
      left_fillet == _fillet_arc_for_corner(left_lower, left_corner_pt,
                                            left_upper, corner_r, slack[2])
  IN  IF left_tangents.raised # "" THEN Raises(left_tangents.raised)
      ELSE IF right_tangents.raised # "" THEN Raises(right_tangents.raised)
      ELSE IF left_tangents.out = <<>> \/ right_tangents.out = <<>>
        THEN Returns(<< <<"moveTo", left_corner_pt[1], left_corner_pt[2]>>,
                        <<"lineTo", pts[2][1], pts[2][2]>>,
                        <<"lineTo", right_corner_pt[1], right_corner_pt[2]>>,
                        <<"lineTo", pts[4][1], pts[4][2]>>,
                        <<"close">> >>)
      ELSE IF right_fillet.raised # "" THEN Raises(right_fillet.raised)
      ELSE IF left_fillet.raised # "" THEN Raises(left_fillet.raised)
      ELSE Returns(<< <<"moveTo", left_upper[1], left_upper[2]>>,
                      _path_arc_connected(centre, arc_r) >>
                   \o corner_path(right_fillet.out, right_corner_pt, corner_r)
                   \o << <<"lineTo", right_lower[1], right_lower[2]>>,
                         _path_arc_connected(centre, arc_r) >>
                   \o corner_path(left_fillet.out, left_corner_pt, corner_r)
                   \o << <<"lineTo", left_upper[1], left_upper[2]>>,
                         <<"close">> >>)

(***************************************************************************)
(* render_engine.py: the page control of render_labels. The grid is         *)
(* cols x rows cells; labels is the label list, <<>> for None and           *)
(* <<type>> for a label of that type.                                       *)
(***************************************************************************)

\* The longest label list handed to render_labels.
MaxLabels == 5

GridCols == {1, 2, 3}
GridRows == {1, 2}
LabelTypes == {"resistor_label_t", "transistor_label_t"}

RECURSIVE LabelLists(_)
LabelLists(n) ==
  IF n = 0 THEN { <<>> }
  ELSE LET shorter == LabelLists(n - 1)
       IN  shorter \cup
           { Append(l, x) : l \in { m \in shorter : Len(m) = n - 1 },
                            x \in { <<>> } \cup { <<t>> : t \in LabelTypes } }

\* render_engine.py:206-224: the outline of every cell of the page.
_draw_outlines(cv, rows, cols) ==
  canvas_calls(cv,
    [k \in 1..(3 * rows * cols) |->
       LET cell == (k - 1) \div 3
       IN  CASE (k - 1) % 3 = 0 -> <<"setStrokeColor", black>>
             [] (k - 1) % 3 = 1 -> <<"setLineWidth", 100>>
             [] OTHER           -> <<"roundRect", cell \div cols, cell % cols>>])

_begin_page(cv, rows, cols, draw_outlines) ==
  IF draw_outlines THEN _draw_outlines(cv, rows, cols) ELSE cv

_end_page(cv) == issue(cv, <<"showPage">>)

\* Variation for C30: the page is ended at the start of every row of the
\* grid.
render_position_break_on_row(r, cv) ==
  LET position == r.position
      row == (position \div r.cols) % r.rows
      col == position % r.cols
      broke == position > 0 /\ col = 0
      cv1 == IF broke
               THEN _begin_page(_end_page(cv), r.rows, r.cols, r.draw_outlines)
               ELSE cv
      label == r.labels[position + 1]
  IN  [locals |-> [r EXCEPT !.position = @ + 1,
                            !.pages_rendered = IF broke THEN @ + 1 ELSE @,
                            !.labels_rendered = IF label = <<>> THEN @ ELSE @ + 1],
       canvas |-> IF label = <<>> THEN cv1
                  ELSE issue(cv1, <<"_draw_single_label", label[1], row, col>>)]

\* render_engine.py:67-89: one turn of the loop over the labels, for the
\* label at r.position (counted from 0). r holds the locals of render_labels.
render_position(r, cv) ==
  LET position == r.position
      row == (position \div r.cols) % r.rows
      col == position % r.cols
      broke == position > 0 /\ row = 0 /\ col = 0
      cv1 == IF broke
               THEN _begin_page(_end_page(cv), r.rows, r.cols, r.draw_outlines)
               ELSE cv
      label == r.labels[position + 1]
  IN  [locals |-> [r EXCEPT !.position = @ + 1,
                            !.pages_rendered = IF broke THEN @ + 1 ELSE @,
                            !.labels_rendered = IF label = <<>> THEN @ ELSE @ + 1],
       canvas |-> IF label = <<>> THEN cv1
                  ELSE issue(cv1, <<"_draw_single_label", label[1], row, col>>)]

\* outline_db.py:15-17: the three tables are empty when the module body starts.
Init ==
  /\ OUTLINES = EmptyDict
  /\ PACKAGE_ALIASES = EmptyDict
  /\ PACKAGE_VARIANTS = EmptyDict
  /\ phase = "empty"
  /\ regs = 0
  /\ pc = "idle"
  /\ raw_package = <<>>
  /\ ids = NoIds
  /\ result = NoPackage
  /\ memo = NoMemo
  /\ FAMILY_DRAWERS = EmptyDict
  /\ canvas = NewCanvas
  /\ call = NoCall

\* outline_db.py:711
SeedFullOutlineRegistry ==
  /\ phase = "empty"
  /\ SetTables(_seed_full_outline_registry(Tables))
  /\ phase' = "catalogued"
  /\ UNCHANGED <<regs, pc, raw_package, ids, result, memo>>
  /\ UNCHANGED apivars

\* outline_db.py:712
SeedCurrentRenderables ==
  /\ phase = "catalogued"
  /\ SetTables(_seed_current_renderables(Tables))
  /\ phase' = "seeded"
  /\ UNCHANGED <<regs, pc, raw_package, ids, result, memo>>
  /\ UNCHANGED apivars

\* The two passes in the other order: the renderables are seeded on empty
\* tables, and the full outline list after them.
SeedCurrentRenderablesFirst ==
  /\ phase = "empty"
  /\ SetTables(_seed_current_renderables(Tables))
  /\ phase' = "renderables"
  /\ UNCHANGED <<regs, pc, raw_package, ids, result, memo>>
  /\ UNCHANGED apivars

SeedFullOutlineRegistryLast ==
  /\ phase = "renderables"
  /\ SetTables(_seed_full_outline_registry(Tables))
  /\ phase' = "reordered"
  /\ UNCHANGED <<regs, pc, raw_package, ids, result, memo>>
  /\ UNCHANGED apivars

\* A call resolve_package(raw) with raw drawn from `inputs`.
ResolveCall(inputs) ==
  /\ pc = "idle"
  /\ \E raw \in inputs :
       /\ raw_package' = raw
       /\ ids' = _resolve_to_ids_and_overrides(_split_qualifiers(raw).base)
       /\ result' = resolve_package(raw)
       /\ OUTLINES' = outlines_after_resolve(raw)
       /\ memo' = IF phase # "seeded" THEN memo
                  ELSE IF memo.set
                    THEN [memo EXCEPT !.between = @ \/ raw # memo.raw]
                  ELSE IF raw \in ProbeRaws
                    THEN [set |-> TRUE, raw |-> raw,
                          result |-> resolve_package(raw), between |-> FALSE]
                  ELSE memo
  /\ pc' = "returned"
  /\ UNCHANGED <<PACKAGE_ALIASES, PACKAGE_VARIANTS, phase, regs>>
  /\ UNCHANGED apivars

\* The caller takes the result; the next call may start.
Return ==
  /\ pc = "returned"
  /\ pc' = "idle"
  /\ raw_package' = <<>>
  /\ ids' = NoIds
  /\ result' = NoPackage
  /\ call' = NoCall
  /\ canvas' = Fresh(canvas)
  /\ UNCHANGED <<OUTLINES, PACKAGE_ALIASES, PACKAGE_VARIANTS, phase, regs, memo>>
  /\ UNCHANGED FAMILY_DRAWERS

RegisterOutline ==
  /\ pc = "idle" /\ regs < MaxRegs
  /\ \E id \in RegOutlineIds, f \in RegFamilies, p \in RegParams,
        al \in RegOutlineAliases :
       SetTables(_register_outline(Tables, id, "GEN", "Test", f, p, al))
  /\ regs' = regs + 1
  /\ UNCHANGED <<phase, pc, raw_package, ids, result, memo>>
  /\ UNCHANGED apivars

RegisterAlias ==
  /\ pc = "idle" /\ regs < MaxRegs
  /\ \E a \in RegAliases, c \in RegAliasTargets :
       SetTables(_register_alias(Tables, a, c))
  /\ regs' = regs + 1
  /\ UNCHANGED <<phase, pc, raw_package, ids, result, memo>>
  /\ UNCHANGED apivars

RegisterVariant ==
  /\ pc = "idle" /\ regs < MaxRegs
  /\ \E v \in RegVariantIds, b \in RegVariantBases, o \in RegOverrides,
        al \in RegVariantAliases :
       SetTables(_register_variant(Tables, v, b, o, al))
  /\ regs' = regs + 1
  /\ UNCHANGED <<phase, pc, raw_package, ids, result, memo>>
  /\ UNCHANGED apivars

\* A call scale_physical(rect, mm_w, mm_h, scale_factor).
ScalePhysical ==
  /\ pc = "idle"
  /\ \E rw \in Floats(ScaleWidths), rh \in Floats(ScaleHeights),
        mm_w \in Floats(ScaleMmW), mm_h \in Floats(ScaleMmH),
        scale_factor \in Floats(ScaleFactors) :
       LET rect == [left |-> fzero, bottom |-> fzero,
                    width |-> rw, height |-> rh]
       IN  call' = [op |-> "scale_physical", rect |-> rect, mm_w |-> mm_w,
                    mm_h |-> mm_h, scale_factor |-> scale_factor,
                    out |-> scale_physical(rect, mm_w, mm_h, scale_factor)]
  /\ pc' = "returned"
  /\ UNCHANGED <<OUTLINES, PACKAGE_ALIASES, PACKAGE_VARIANTS, phase, regs,
                 raw_package, ids, result, memo, FAMILY_DRAWERS, canvas>>

\* What a direct call of a drawer leaves in the state. No caller in the
\* program catches what a drawer raises: the run ends there.
DrawerCalled(name, args, d) ==
  /\ canvas' = d.canvas
  /\ call' = [op |-> name, args |-> args, raised |-> d.raised,
              before |-> canvas]
  /\ pc' = IF d.raised THEN "raised" ELSE "returned"
  /\ UNCHANGED <<OUTLINES, PACKAGE_ALIASES, PACKAGE_VARIANTS, phase, regs,
                 raw_package, ids, result, memo, FAMILY_DRAWERS>>

\* The renderer draws the text of a label, which sets the font and the line
\* width, before the next package is drawn on the same canvas.
CallerSetsState ==
  /\ pc = "idle"
  /\ canvas.stack = <<>>
  /\ \E gs \in CallerStates :
       canvas' = [canvas EXCEPT !.fill = gs.fill, !.stroke = gs.stroke,
                                !.line_width = gs.line_width, !.font = gs.font]
  /\ UNCHANGED <<OUTLINES, PACKAGE_ALIASES, PACKAGE_VARIANTS, phase, regs, pc,
                 raw_package, ids, result, memo, FAMILY_DRAWERS, call>>

DrawAxialPackage ==
  /\ pc = "idle"
  /\ \E rect \in Rects, info \in AxialInfos, material \in AxialMaterials,
        show_labels \in BOOLEAN :
       DrawerCalled("draw_axial_package",
                    [rect |-> rect, info |-> info, material |-> material,
                     show_labels |-> show_labels],
                    draw_axial_package(Fresh(canvas), rect, info, material,
                                       show_labels))

DrawTo220Package ==
  /\ pc = "idle"
  /\ \E rect \in Rects, pin_count \in To220PinCounts, spec \in To220Specs :
       DrawerCalled("draw_to220_package",
                    [rect |-> rect, pin_count |-> pin_count, spec |-> spec],
                    draw_to220_package(Fresh(canvas), rect, pin_count, spec))

DrawTo92Package ==
  /\ pc = "idle"
  /\ \E rect \in Rects, spec \in To92Specs :
       DrawerCalled("draw_to92_package",
                    [rect |-> rect, pin_count |-> 3, spec |-> spec],
                    draw_to92_package(Fresh(canvas), rect, 3, spec))

DrawSmd3Package ==
  /\ pc = "idle"
  /\ \E rect \in Rects, info \in Smd3Infos,
        default_pin_labels \in Smd3DefaultLabels, spec \in PinSpecs :
       DrawerCalled("draw_smd3_package",
                    [rect |-> rect, info |-> info,
                     default_pin_labels |-> default_pin_labels, spec |-> spec],
                    draw_smd3_package(Fresh(canvas), rect, info,
                                      default_pin_labels, spec))

DrawCapacitorDisc ==
  /\ pc = "idle"
  /\ \E rect \in Rects, qualifiers \in DiscQualifiers :
       LET pkg == [qualifiers |-> qualifiers,
                   params |-> [body_diameter_mm |-> 7000]]
       IN  DrawerCalled("draw_capacitor_disc", [rect |-> rect, pkg |-> pkg],
                        draw_capacitor_disc(Fresh(canvas), rect, pkg))

DrawTo204Package ==
  /\ pc = "idle"
  /\ \E rect \in Rects, pin_count \in To204PinCounts, is_body_pin \in BOOLEAN,
        device_spec \in PinSpecs :
       DrawerCalled("draw_to204_package",
                    [rect |-> rect, pin_count |-> pin_count,
                     is_body_pin |-> is_body_pin, spec |-> device_spec],
                    draw_to204_package(Fresh(canvas), rect, pin_count,
                                       is_body_pin, device_spec))

\* registry.py:459-477, run when api.py imports the registry.
ImportRegistry ==
  /\ phase = "seeded" /\ pc = "idle"
  /\ FAMILY_DRAWERS = EmptyDict
  /\ FAMILY_DRAWERS' = register_families(FAMILY_DRAWERS, family_registrations)
  /\ UNCHANGED <<OUTLINES, PACKAGE_ALIASES, PACKAGE_VARIANTS, phase, regs, pc,
                 raw_package, ids, result, memo, canvas, call>>

\* One call register_family(family_id, drawer).
RegisterFamily ==
  /\ pc = "idle" /\ regs < MaxRegs
  /\ \E f \in RegDrawerFamilies :
       FAMILY_DRAWERS' = register_family(FAMILY_DRAWERS, f, "_draw_to92_moulded")
  /\ regs' = regs + 1
  /\ UNCHANGED <<OUTLINES, PACKAGE_ALIASES, PACKAGE_VARIANTS, phase, pc,
                 raw_package, ids, result, memo, canvas, call>>

\* The resolve_package call made inside an API call.
InnerResolve(raw) ==
  /\ raw_package' = raw
  /\ ids' = _resolve_to_ids_and_overrides(_split_qualifiers(raw).base)
  /\ result' = resolve_package(raw)
  /\ OUTLINES' = outlines_after_resolve(raw)

\* A call draw_package(canvas, rect, raw, spec), with the arguments drawn
\* from the given sets.
DrawPackage(inputs, rects, specs) ==
  /\ pc = "idle"
  /\ \E raw \in inputs, rect \in rects, spec \in specs :
       LET d == draw_package(Fresh(canvas), rect, raw, spec)
       IN  /\ canvas' = d.canvas
           /\ call' = [op |-> "draw_package", raw |-> raw, rect |-> rect,
                       spec |-> spec, invoked |-> d.invoked,
                       raised |-> d.raised, before |-> canvas]
           /\ IF raw = <<>>
                THEN UNCHANGED <<raw_package, ids, result, OUTLINES>>
                ELSE InnerResolve(raw)
           /\ pc' = IF d.raised THEN "raised" ELSE "returned"
  /\ UNCHANGED <<PACKAGE_ALIASES, PACKAGE_VARIANTS, phase, regs, memo,
                 FAMILY_DRAWERS>>

\* A call of layout.label_text.format_package_for_text(raw), which calls
\* api.format_package_for_text(raw).
FormatPackageForText(inputs) ==
  /\ pc = "idle"
  /\ \E raw \in inputs :
       /\ call' = [op |-> "format_package_for_text", raw |-> raw,
                   text |-> label_text_format_package_for_text(raw),
                   api_text |-> format_package_for_text(raw)]
       /\ InnerResolve(raw)
  /\ pc' = "returned"
  /\ UNCHANGED <<PACKAGE_ALIASES, PACKAGE_VARIANTS, phase, regs, memo,
                 FAMILY_DRAWERS, canvas>>

\* The points, radii and vectors handed to the routines of to204.py.
GeomPoints ==
  { <<0, 0>>, <<4000, 0>>, <<0, 4000>>, <<-4000, 0>>, <<3000, 4000>>,
    <<-3000, -4000>>, <<4000, 3000>>, <<4000, 100>> }
GeomCorners == { <<0, 0>>, <<4000, 0>> }
GeomRadii == { 5, 10, 1000, 5000 }
GeomVectors ==
  { <<0, 0>>, <<1000, 0>>, <<0, 1000>>, <<600, 800>>, <<-600, -800>>,
    <<800, 600>>, <<-1000, 0>>, <<3000, 4000>> }
CircleRadii == { 0, 1000, 4000, 5000, 6000 }
OutlineCentres == { <<0, 0>>, <<10000, 5000>> }
TipDxs == { 0, 3000, 8000 }
TipDys == { 0, 4000, 10000 }
CornerRadii == { 0, 500, 2000 }
CentreArcRadii == { 0, 2000, 4000, 12000, 40000 }
Slacks == { 0, 1 }

\* A call of one of the routines of to204.py, with its arguments and what
\* came of it.
RoutineCalled(name, args, d) ==
  /\ pc = "idle"
  /\ call' = [op |-> name, args |-> args, raised |-> d.raised, out |-> d.out]
  /\ pc' = IF d.raised # "" THEN "raised" ELSE "returned"
  /\ UNCHANGED <<OUTLINES, PACKAGE_ALIASES, PACKAGE_VARIANTS, phase, regs,
                 raw_package, ids, result, memo, FAMILY_DRAWERS, canvas>>

VDot ==
  \E a \in GeomVectors, b \in GeomVectors :
    RoutineCalled("_v_dot", [a |-> a, b |-> b], Returns(_v_dot(a, b)))

FilletArcForCorner ==
  \E prev_pt \in GeomPoints, corner_pt \in GeomCorners, next_pt \in GeomPoints,
     radius \in GeomRadii, slack \in Slacks :
    RoutineCalled("_fillet_arc_for_corner",
                  [prev_pt |-> prev_pt, corner_pt |-> corner_pt,
                   next_pt |-> next_pt, radius |-> radius],
                  _fillet_arc_for_corner(prev_pt, corner_pt, next_pt, radius,
                                         slack))

TangentPoints ==
  \E point \in GeomPoints, circle_centre \in GeomCorners,
     circle_r \in CircleRadii :
    RoutineCalled("_tangent_points_from_external_point_to_circle",
                  [point |-> point, circle_centre |-> circle_centre,
                   circle_r |-> circle_r],
                  _tangent_points_from_external_point_to_circle(
                    point, circle_centre, circle_r))

BuildTo3OutlinePath ==
  \E c \in OutlineCentres, tip_dx \in TipDxs, tip_dy \in TipDys,
     variable_corner_r \in CornerRadii, centre_arc_r \in CentreArcRadii,
     slack \in Slacks \X Slacks :
    RoutineCalled("_build_to3_outline_path",
                  [cx |-> c[1], cy |-> c[2], tip_dx |-> tip_dx,
                   tip_dy |-> tip_dy, variable_corner_r |-> variable_corner_r,
                   centre_arc_r |-> centre_arc_r],
                  _build_to3_outline_path(c[1], c[2], tip_dx, tip_dy,
                                          variable_corner_r, centre_arc_r,
                                          slack))

\* render_engine.py:58-65: render_labels is called; the title is set and the
\* first page begun.
RenderLabelsCalled ==
  /\ pc = "idle"
  /\ \E cols \in GridCols, rows \in GridRows, labels \in LabelLists(MaxLabels),
        draw_outlines \in BOOLEAN :
       /\ call' = [op |-> "render_labels", cols |-> cols, rows |-> rows,
                   labels |-> labels, draw_outlines |-> draw_outlines,
                   position |-> 0, labels_rendered |-> 0,
                   pages_rendered |-> 1, out |-> <<>>]
       /\ canvas' = _begin_page(issue(Fresh(canvas), <<"setTitle">>),
                                rows, cols, draw_outlines)
  /\ pc' = "rendering"
  /\ UNCHANGED <<OUTLINES, PACKAGE_ALIASES, PACKAGE_VARIANTS, phase, regs,
                 raw_package, ids, result, memo, FAMILY_DRAWERS>>

\* render_engine.py:67-89
RenderPosition ==
  /\ pc = "rendering"
  /\ call.position < Len(call.labels)
  /\ LET turn == render_position(call, canvas)
     IN  /\ call' = turn.locals
         /\ canvas' = turn.canvas
  /\ UNCHANGED <<OUTLINES, PACKAGE_ALIASES, PACKAGE_VARIANTS, phase, regs, pc,
                 raw_package, ids, result, memo, FAMILY_DRAWERS>>

\* render_engine.py:91-96: the last page is ended and the counts returned.
RenderLabelsReturns ==
  /\ pc = "rendering"
  /\ call.position = Len(call.labels)
  /\ canvas' = _end_page(canvas)
  /\ call' = [call EXCEPT !.out = <<[labels_rendered |-> call.labels_rendered,
                                     pages_rendered |-> call.pages_rendered]>>]
  /\ pc' = "returned"
  /\ UNCHANGED <<OUTLINES, PACKAGE_ALIASES, PACKAGE_VARIANTS, phase, regs,
                 raw_package, ids, result, memo, FAMILY_DRAWERS>>

\* The program: outline_db is imported (both passes run), then packages are
\* resolved.
Next ==
  \/ SeedFullOutlineRegistry
  \/ SeedCurrentRenderables
  \/ (phase = "seeded" /\ ResolveCall(SeededRaws))
  \/ Return

Spec == Init /\ [][Next]_vars

\* The registration primitives called one by one on empty tables, with
\* resolve_package called in between.
RegNext ==
  \/ RegisterOutline
  \/ RegisterAlias
  \/ RegisterVariant
  \/ ResolveCall(RegRaws)
  \/ Return

RegSpec == Init /\ [][RegNext]_vars

\* The two seeding passes run in one order or the other, then packages are
\* resolved.
OrderNext ==
  \/ SeedFullOutlineRegistry
  \/ SeedCurrentRenderables
  \/ SeedCurrentRenderablesFirst
  \/ SeedFullOutlineRegistryLast
  \/ (phase \in {"seeded", "reordered"} /\ ResolveCall(OrderRaws))
  \/ Return

OrderSpec == Init /\ [][OrderNext]_vars

\* scale_physical called with one set of arguments after another.
ScaleNext ==
  \/ ScalePhysical
  \/ Return

ScaleSpec == Init /\ [][ScaleNext]_vars

\* The drawers called one after another on one canvas, whose graphics state
\* the caller sets in between.
DrawNext ==
  \/ CallerSetsState
  \/ DrawAxialPackage
  \/ DrawTo220Package
  \/ DrawTo92Package
  \/ DrawSmd3Package
  \/ DrawCapacitorDisc
  \/ DrawTo204Package
  \/ Return

DrawSpec == Init /\ [][DrawNext]_vars

\* The routines of to204.py called one after another.
GeomNext ==
  \/ VDot
  \/ FilletArcForCorner
  \/ TangentPoints
  \/ BuildTo3OutlinePath
  \/ Return

GeomSpec == Init /\ [][GeomNext]_vars

\* render_labels called with one grid and label list after another, its loop
\* taken one label at a time.
RenderNext ==
  \/ RenderLabelsCalled
  \/ RenderPosition
  \/ RenderLabelsReturns
  \/ Return

RenderSpec == Init /\ [][RenderNext]_vars

Ready == phase = "seeded" /\ FAMILY_DRAWERS # EmptyDict

\* The package API as the label renderers use it: outline_db and the registry
\* are imported, then packages are drawn and their names formatted.
ApiNext ==
  \/ SeedFullOutlineRegistry
  \/ SeedCurrentRenderables
  \/ ImportRegistry
  \/ (Ready /\ DrawPackage(ApiRaws, Rects, DeviceSpecs))
  \/ (Ready /\ FormatPackageForText(ApiRaws))
  \/ Return

ApiSpec == Init /\ [][ApiNext]_vars

\* The package API over tables filled one registration at a time.
ApiRegNext ==
  \/ RegisterOutline
  \/ RegisterFamily
  \/ DrawPackage(RegRaws, {PackageBox}, {<<>>})
  \/ FormatPackageForText(RegRaws)
  \/ Return

ApiRegSpec == Init /\ [][ApiRegNext]_vars

(***************************************************************************)
(* Properties.                                                             *)
(***************************************************************************)

\* The segment of the last call's raw string before the first "@".
CallBase == Head(split(raw_package, "@"))

\* The key the last call looked up.
CallKey == _normalise_lookup(CallBase)

Returned == pc = "returned"

Seeded == phase = "seeded"

\* C1: the normalised base key is looked up in the variant table, then the
\* alias table, then the outline table, and the first table holding it
\* decides canonical id, print id and overrides: a variant gives (base_id,
\* its own id or base_id if that is empty, its overrides); an alias gives the
\* aliased id twice and no overrides; a direct hit gives the key twice and no
\* overrides. A found result carries these two ids.
C1_Precedence ==
  Returned =>
    /\ CallKey \in DOMAIN PACKAGE_VARIANTS =>
         LET v == PACKAGE_VARIANTS[CallKey]
         IN  /\ ids.canonical_id = v.base_id
             /\ ids.print_id = (IF v.variant_id = <<>> THEN v.base_id
                                ELSE v.variant_id)
             /\ ids.overrides = v.overrides
    /\ (CallKey \notin DOMAIN PACKAGE_VARIANTS
        /\ CallKey \in DOMAIN PACKAGE_ALIASES) =>
         /\ ids.canonical_id = PACKAGE_ALIASES[CallKey]
         /\ ids.print_id = PACKAGE_ALIASES[CallKey]
         /\ ids.overrides = EmptyDict
    /\ (CallKey \notin DOMAIN PACKAGE_VARIANTS
        /\ CallKey \notin DOMAIN PACKAGE_ALIASES
        /\ CallKey \in DOMAIN OUTLINES) =>
         /\ ids.canonical_id = CallKey
         /\ ids.print_id = CallKey
         /\ ids.overrides = EmptyDict
    /\ result.found =>
         /\ result.canonical_id = ids.canonical_id
         /\ result.print_id = ids.print_id

\* C1 witness: a key held by the variant table and by the alias table, the two
\* naming different outlines, was resolved and the variant decided.
C1_Witness ==
  /\ Returned
  /\ CallKey \in DOMAIN PACKAGE_VARIANTS
  /\ CallKey \in DOMAIN PACKAGE_ALIASES
  /\ PACKAGE_ALIASES[CallKey] # PACKAGE_VARIANTS[CallKey].base_id
  /\ PACKAGE_ALIASES[CallKey] \in DOMAIN OUTLINES
  /\ result.found
  /\ result.canonical_id = PACKAGE_VARIANTS[CallKey].base_id

\* The canonical id the tables map the looked-up key to.
MappedId ==
  IF CallKey \in DOMAIN PACKAGE_VARIANTS THEN PACKAGE_VARIANTS[CallKey].base_id
  ELSE IF CallKey \in DOMAIN PACKAGE_ALIASES THEN PACKAGE_ALIASES[CallKey]
  ELSE CallKey

InNoTable ==
  /\ CallKey \notin DOMAIN PACKAGE_VARIANTS
  /\ CallKey \notin DOMAIN PACKAGE_ALIASES
  /\ CallKey \notin DOMAIN OUTLINES

\* C2: whenever the looked-up key is in none of the three tables, or the
\* canonical id it is mapped to has no outline record, resolve_package
\* returns the not-found result (and it returns: the call always ends with a
\* found or a not-found value).
C2_NotFound ==
  Returned =>
    /\ result.found \in BOOLEAN
    /\ (InNoTable \/ MappedId \notin DOMAIN OUTLINES) => result = NoPackage

\* C2 witness: a variant whose base outline was never registered was resolved.
C2_Witness ==
  /\ Returned
  /\ CallKey \in DOMAIN PACKAGE_VARIANTS
  /\ PACKAGE_VARIANTS[CallKey].base_id # <<>>
  /\ PACKAGE_VARIANTS[CallKey].base_id \notin DOMAIN OUTLINES
  /\ DOMAIN OUTLINES # {}
  /\ result = NoPackage

\* The last call's raw string has no "@" segment.
NoQualifiers == split(raw_package, "@") = <<raw_package>>

\* The base params of an outline entry ({} when it has none).
BaseParams(canonical_id) ==
  IF "params" \in DOMAIN OUTLINES[canonical_id]
    THEN OUTLINES[canonical_id]["params"] ELSE EmptyDict

\* C3: for every registered variant v with base b and overrides O, resolved
\* without qualifiers: the result is found with canonical id b, every key of
\* O has O's value in params, and every key of b's base params that is not
\* in O has the base value.
C3_VariantMerge ==
  (Returned /\ Seeded /\ NoQualifiers /\ CallKey \in DOMAIN PACKAGE_VARIANTS) =>
    LET v == PACKAGE_VARIANTS[CallKey]
        O == v.overrides
    IN  /\ result.found
        /\ result.canonical_id = v.base_id
        /\ \A k \in DOMAIN O : result.params[k] = O[k]
        /\ \A k \in DOMAIN BaseParams(v.base_id) \ DOMAIN O :
             result.params[k] = BaseParams(v.base_id)[k]

\* C3 witness: a variant was resolved whose overrides change a base value and
\* leave another base key alone.
C3_Witness ==
  /\ Returned /\ Seeded /\ NoQualifiers
  /\ CallKey \in DOMAIN PACKAGE_VARIANTS
  /\ result.found
  /\ LET v == PACKAGE_VARIANTS[CallKey]
         bp == BaseParams(v.base_id)
     IN  /\ \E k \in DOMAIN v.overrides \cap DOMAIN bp :
               v.overrides[k] # bp[k] /\ result.params[k] = v.overrides[k]
         /\ \E k \in DOMAIN bp \ DOMAIN v.overrides : result.params[k] = bp[k]

\* C4 as claimed: for every alias a of the seeded alias table with target c,
\* resolve(a) has canonical id c, resolve(c) is found, and the two print ids
\* are equal.
C4_AliasAsClaimed ==
  (Returned /\ Seeded /\ raw_package \in DOMAIN PACKAGE_ALIASES
     /\ raw_package \notin DOMAIN PACKAGE_VARIANTS) =>
    LET c == PACKAGE_ALIASES[raw_package]
    IN  /\ result.found
        /\ result.canonical_id = c
        /\ resolve_package(c).found
        /\ result.print_id = resolve_package(c).print_id

\* The fields of a result that do not name the raw string.
SameButRaw(r1, r2) ==
  /\ r1.found = r2.found
  /\ r1.found =>
       /\ r1.canonical_id = r2.canonical_id
       /\ r1.print_id = r2.print_id
       /\ r1.family_id = r2.family_id
       /\ r1.params = r2.params
       /\ r1.qualifiers = r2.qualifiers
       /\ r1.is_renderable = r2.is_renderable

TO_220_5 == <<"T","O","-","2","2","0","-","5">>

TO_220_AB == <<"T","O","-","2","2","0","-","A","B">>

TO_220_AB_5L == <<"T","O","-","2","2","0","-","A","B","-","5","L">>

\* C5: every key of the variant table resolves to the same canonical id,
\* print id, family id and params as the variant's own identifier; "TO-220-5"
\* yields canonical id "TO-220-AB", print id "TO-220-AB-5L", pin_count 5.
C5_VariantAlias ==
  /\ (Returned /\ Seeded /\ NoQualifiers /\ CallKey \in DOMAIN PACKAGE_VARIANTS) =>
       /\ result.found
       /\ SameButRaw(result, resolve_package(PACKAGE_VARIANTS[CallKey].variant_id))
  /\ (Returned /\ Seeded /\ raw_package = TO_220_5) =>
       /\ result.found
       /\ result.canonical_id = TO_220_AB
       /\ result.print_id = TO_220_AB_5L
       /\ result.params["pin_count"] = 5

\* C5 witness: "TO-220-5", an alias of the variant "TO-220-AB-5L", was resolved.
C5_Witness ==
  /\ Returned /\ Seeded /\ raw_package = TO_220_5
  /\ CallKey # _normalise_lookup(PACKAGE_VARIANTS[CallKey].variant_id)
  /\ result.found

DO_35 == <<"D","O","-","3","5">>

DO_204_AH == <<"D","O","-","2","0","4","-","A","H">>

\* C6: a pure alias resolved without qualifiers yields the aliased outline's
\* family id and exactly its base params; "DO-35" yields canonical id
\* "DO-204-AH", family "axial_round_body", len 3.9, dia 1.7, material glass.
C6_PureAlias ==
  /\ (Returned /\ Seeded /\ NoQualifiers
        /\ CallKey \in DOMAIN PACKAGE_ALIASES
        /\ CallKey \notin DOMAIN PACKAGE_VARIANTS) =>
       LET c == PACKAGE_ALIASES[CallKey]
       IN  /\ result.found
           /\ result.canonical_id = c
           /\ result.family_id = (IF "family_id" \in DOMAIN OUTLINES[c]
                                    THEN <<OUTLINES[c]["family_id"]>> ELSE <<>>)
           /\ result.params = BaseParams(c)
  /\ (Returned /\ Seeded /\ raw_package = DO_35) =>
       /\ result.found
       /\ result.canonical_id = DO_204_AH
       /\ result.family_id = <<"axial_round_body">>
       /\ result.params["len"] = 3900
       /\ result.params["dia"] = 1700
       /\ result.params["material"] = <<"g","l","a","s","s">>

\* C6 witness: "DO-35" was resolved.
C6_Witness ==
  /\ Returned /\ Seeded /\ raw_package = DO_35
  /\ CallKey \in DOMAIN PACKAGE_ALIASES
  /\ result.found
  /\ result.params # EmptyDict

\* What the last call's base key resolves to on its own, without qualifiers.
Unqualified == resolve_package(CallBase)

ClaimedMaterials ==
  { <<"g","l","a","s","s">>, <<"e","p","o","x","y">>, <<"b","l","u","e">>,
    <<"m","e","t","a","l","l","i","c">>, <<"y","e","l","l","o","w">> }

ClaimedFinishes ==
  { <<"f","u","l","l","p","a","c","k">>,
    <<"i","n","s","u","l","a","t","e","d">>, <<"f">> }

IsMaterial(q) == q \in ClaimedMaterials

IsFinish(q) == q \in ClaimedFinishes

IsUnrecognised(q) == q \notin ClaimedMaterials /\ q \notin ClaimedFinishes

\* d.get(k) = e.get(k): the same value, or absent from both.
SameAt(d, e, k) ==
  /\ k \in DOMAIN d <=> k \in DOMAIN e
  /\ k \in DOMAIN d => d[k] = e[k]

C8_Identity ==
  (Returned /\ Seeded) =>
    /\ result.found = Unqualified.found
    /\ result.found =>
         /\ result.canonical_id = Unqualified.canonical_id
         /\ result.print_id = Unqualified.print_id
         /\ result.family_id = Unqualified.family_id
         /\ result.is_renderable = Unqualified.is_renderable

\* C8 witness: a call with qualifiers that changed the params and left the
\* identity alone.
C8_Witness ==
  /\ Returned /\ Seeded /\ result.found
  /\ result.qualifiers # <<>>
  /\ result.params # Unqualified.params
  /\ result.print_id = Unqualified.print_id
  /\ result.print_id # result.canonical_id

ClaimedKey(b) == remove_char(remove_char(upper(b), " "), "_")

\* The last call's raw string from its first "@" on.
CallSuffix == SubSeq(raw_package, Len(CallBase) + 1, Len(raw_package))

\* C10 as claimed: the key normaliser is idempotent, registration and
\* resolution normalise alike, and a raw string resolves as the string with
\* the same qualifiers whose base part is already uppercased and free of
\* spaces and underscores, in every field but raw_key.
C10_AsClaimed ==
  (Returned /\ Seeded) =>
    /\ _normalise_lookup(_normalise_lookup(CallBase)) = _normalise_lookup(CallBase)
    /\ _normalise_alias_key(CallBase) = _normalise_lookup(CallBase)
    /\ SameButRaw(result, resolve_package(ClaimedKey(CallBase) \o CallSuffix))

DrawCalled == call.op = "draw_package"

\* C12: a draw_package call invokes at most one drawer; it invokes one only
\* if the raw string is non-empty, resolves, the result is renderable and
\* the dispatch table holds a drawer for its family id, and then it is that
\* drawer; otherwise (empty string, unknown package, known package that is
\* not renderable, family without a drawer) no drawer is invoked, nothing is
\* drawn and nothing is raised.
C12_Dispatch ==
  DrawCalled =>
    LET resolved == resolve_package(call.raw)
        drawable == /\ call.raw # <<>>
                    /\ resolved.found
                    /\ resolved.is_renderable
                    /\ resolved.family_id[1] \in DOMAIN FAMILY_DRAWERS
    IN  /\ Len(call.invoked) <= 1
        /\ drawable =>
             call.invoked = <<FAMILY_DRAWERS[resolved.family_id[1]]>>
        /\ ~drawable =>
             /\ call.invoked = <<>>
             /\ ~call.raised
             /\ canvas = Fresh(call.before)

\* C12 witness: a package whose family has no drawer was drawn, and no
\* drawer ran.
C12_Witness ==
  /\ DrawCalled
  /\ result.found /\ result.is_renderable
  /\ result.family_id[1] \notin DOMAIN FAMILY_DRAWERS
  /\ call.invoked = <<>>
  /\ FAMILY_DRAWERS # EmptyDict

\* C12 witness of the other cases: a renderable package drawn by its drawer.
C12_Drawn ==
  /\ DrawCalled /\ Ready
  /\ call.invoked = <<"_draw_to220_tab">>

FormatCalled == call.op = "format_package_for_text"

\* C13: the text formatter returns the print id of the resolved package
\* when the raw string resolves and the raw string itself, unchanged, when
\* it does not; the layout-level formatter and the API formatter return the
\* same string.
C13_Format ==
  FormatCalled =>
    /\ result.found => call.text = ids.print_id
    /\ ~result.found => call.text = call.raw
    /\ call.text = call.api_text

\* C13 witness: a variant alias typed in lower case with a qualifier was
\* formatted as the variant's id, which is neither the raw string nor the
\* canonical id.
C13_Witness ==
  /\ FormatCalled /\ result.found
  /\ call.text # call.raw
  /\ call.text # result.canonical_id
  /\ call.text = <<"T","O","-","2","2","0","-","A","B","-","5","L">>

\* C13 witness of the fallback: a string that does not resolve and is not in
\* normalised form came back as typed.
C13_Fallback ==
  /\ FormatCalled /\ ~result.found
  /\ call.raw # _normalise_lookup(call.raw)
  /\ call.text = call.raw

ScaleCalled == call.op = "scale_physical"

\* w * k and h * k of the last scale_physical call
ScaledW == fmul(call.mm_w, call.scale_factor)
ScaledH == fmul(call.mm_h, call.scale_factor)

\* C14: scale_physical never returns a dimension greater than the
\* rectangle's (out_w <= rect.width and out_h <= rect.height) and never one
\* greater than the scaled size (out_w <= w*k and out_h <= h*k).
C14_AsClaimed ==
  ScaleCalled =>
    /\ fle(call.out.w, call.rect.width)
    /\ fle(call.out.h, call.rect.height)
    /\ fle(call.out.w, ScaledW)
    /\ fle(call.out.h, ScaledH)

\* The factor of the reference rule, f = min(1, rect.w/w', rect.h/h').
ReferenceFactor ==
  fmin(fmin(float_of(1), fdiv(call.rect.width, ScaledW)),
       fdiv(call.rect.height, ScaledH))

\* C15: for positive w, h, k the result is (w'*f, h'*f) with w' = w*k,
\* h' = h*k and f = min(1, rect.w/w', rect.h/h'); when f < 1 the dimension
\* with the smaller ratio is exactly the rectangle's, and when neither scaled
\* dimension exceeds the rectangle the result is exactly (w', h').
C15_AsClaimed ==
  (/\ ScaleCalled
   /\ ~fis_zero(call.mm_w) /\ ~fis_zero(call.mm_h)
   /\ ~fis_zero(call.scale_factor)) =>
    LET f == ReferenceFactor
        ratio_w == fdiv(call.rect.width, ScaledW)
        ratio_h == fdiv(call.rect.height, ScaledH)
    IN  /\ call.out = [w |-> fmul(ScaledW, f), h |-> fmul(ScaledH, f)]
        /\ flt(f, float_of(1)) =>
             IF fle(ratio_w, ratio_h)
               THEN call.out.w = call.rect.width
               ELSE call.out.h = call.rect.height
        /\ (fle(ScaledW, call.rect.width) /\ fle(ScaledH, call.rect.height)) =>
             call.out = [w |-> ScaledW, h |-> ScaledH]

AxialCalled == call.op = "draw_axial_package"

\* body_length/len and body_diameter/dia of the last draw_axial_package
\* call, 0 when absent.
AxialLength ==
  IF "body_length" \in DOMAIN call.args.info THEN call.args.info["body_length"]
  ELSE IF "len" \in DOMAIN call.args.info THEN call.args.info["len"]
  ELSE 0

AxialDiameter ==
  IF "body_diameter" \in DOMAIN call.args.info
    THEN call.args.info["body_diameter"]
  ELSE IF "dia" \in DOMAIN call.args.info THEN call.args.info["dia"]
  ELSE 0

\* C16: draw_axial_package called with body length <= 0 or body diameter
\* <= 0 makes no canvas call at all, leaves the graphics state and the state
\* stack as they were, and returns without raising.
C16_AxialNoOp ==
  (AxialCalled /\ (AxialLength <= 0 \/ AxialDiameter <= 0)) =>
    /\ canvas.ops = <<>>
    /\ canvas = Fresh(call.before)
    /\ ~call.raised

\* C16 witness: a call with a positive length and a diameter of zero drew
\* nothing, and a state exists where the same drawer did draw.
C16_Witness ==
  /\ AxialCalled
  /\ AxialLength > 0 /\ AxialDiameter = 0
  /\ canvas.ops = <<>>

\* C16 witness of the other side: with both dimensions positive the drawer
\* draws.
C16_Draws ==
  /\ AxialCalled
  /\ AxialLength > 0 /\ AxialDiameter > 0
  /\ canvas.ops # <<>>

\* The last call was one of the family drawers that read their dimensions
\* from the attribute object or the parameter dict.
FamilyDrawerCalled ==
  call.op \in {"draw_to220_package", "draw_to92_package", "draw_smd3_package"}

\* The dimensions the last drawer call read that are zero or negative.
DegenerateDimensions ==
  LET given == IF call.op = "draw_smd3_package" THEN call.args.info
               ELSE IF call.args.spec = <<>> THEN EmptyDict
               ELSE call.args.spec[1]
      read == CASE call.op = "draw_to220_package" ->
                     {"tab_mm", "body_mm", "lead_mm", "width_mm"}
                [] call.op = "draw_to92_package" ->
                     {"body_h", "body_w", "lead_len", "lead_pitch"}
                [] call.op = "draw_smd3_package" ->
                     {"body_w", "body_h", "pad2_w", "pad2_h", "pad2_pitch",
                      "pad1_w", "pad1_h"}
  IN  { k \in read \cap DOMAIN given : given[k] <= 0 }

\* C17 as claimed: a family drawer that reads a zero or negative dimension
\* returns without a canvas call and without raising.
C17_AsClaimed ==
  (FamilyDrawerCalled /\ DegenerateDimensions # {}) =>
    /\ canvas.ops = <<>>
    /\ ~call.raised

\* C17 for draw_smd3_package alone, whose tests come before its first
\* canvas call.
C17_Smd3NoOp ==
  (call.op = "draw_smd3_package" /\ DegenerateDimensions # {}) =>
    /\ canvas.ops = <<>>
    /\ canvas = Fresh(call.before)
    /\ ~call.raised

\* draw_smd3_package returned at its test of the pitch.
C17_Smd3Witness ==
  /\ call.op = "draw_smd3_package"
  /\ DegenerateDimensions = {"pad2_pitch"}
  /\ canvas.ops = <<>>

\* draw_to92_package raised after it drew the body.
C17_To92Raises ==
  /\ call.op = "draw_to92_package"
  /\ DegenerateDimensions = {"body_h"}
  /\ call.raised
  /\ canvas.ops # <<>>

\* draw_to220_package drew a package of zero width.
C17_To220Draws ==
  /\ call.op = "draw_to220_package"
  /\ DegenerateDimensions = {"width_mm"}
  /\ ~call.raised
  /\ canvas.ops # <<>>

\* C19 as claimed: after a family drawer returns, the fill colour, stroke
\* colour, line width and font of the canvas are what they were before the
\* call.
C19_AsClaimed ==
  (FamilyDrawerCalled \/ AxialCalled) =>
    graphics_state(canvas) = graphics_state(call.before)

\* The colours alone: every drawer ends by setting both colours to black,
\* which is what the renderers hand it.
C19_ColoursKept ==
  (FamilyDrawerCalled \/ AxialCalled) /\ ~call.raised =>
    /\ canvas.fill = call.before.fill
    /\ canvas.stroke = call.before.stroke

\* draw_to220_package left its own label font on a canvas that held the
\* renderer's font.
C19_FontLeaks ==
  /\ call.op = "draw_to220_package"
  /\ ~call.raised
  /\ call.before.font = <<"Helvetica-Bold", 8000>>
  /\ canvas.font = <<"Helvetica", scaled(call.args.rect.height, 20, 100)>>

\* draw_smd3_package left its line width of 1.0 on a canvas whose line
\* width was 0.6.
C19_LineWidthLeaks ==
  /\ call.op = "draw_smd3_package"
  /\ call.before.line_width = 600
  /\ canvas.line_width = 1000

\* The labels the last drawer call wrote, in the order written.
LabelsDrawn ==
  LET strings == SelectSeq(canvas.ops, LAMBDA c : c[1] = "drawString")
  IN  [i \in 1..Len(strings) |-> strings[i][2]]

\* The labels of the claimed precedence for a device spec: pin_config when
\* non-empty, else pin_labels when non-empty, else "1", "2", ...
ClaimedLabels(spec, count) ==
  LET pin_config == getattr(spec, "pin_config", <<>>)
      pin_labels == getattr(spec, "pin_labels", <<>>)
      chosen == IF pin_config # <<>> THEN parse_pin_config(pin_config)
                ELSE IF pin_labels # <<>> THEN pin_labels
                ELSE default_numeric_labels(count)
  IN  [i \in 1..Len(chosen) |-> upper(chosen[i])]

\* Positions the last drawer call labels.
LabelPositions ==
  IF call.op = "draw_to220_package"
    THEN (IF call.args.pin_count = 2 THEN 2 ELSE call.args.pin_count)
  ELSE 3

\* C20 as claimed: a drawer that drew its labels wrote the labels of the
\* claimed precedence, position by position.
C20_AsClaimed ==
  (FamilyDrawerCalled /\ ~call.raised /\ canvas.ops # <<>>) =>
    LET claimed == ClaimedLabels(call.args.spec, LabelPositions)
    IN  \A i \in 1..Len(LabelsDrawn) :
          i <= Len(claimed) => LabelsDrawn[i] = claimed[i]

\* C20 for draw_to220_package alone, which has all three branches.
C20_To220Labels ==
  (call.op = "draw_to220_package" /\ ~call.raised) =>
    LET claimed == ClaimedLabels(call.args.spec, LabelPositions)
    IN  /\ Len(LabelsDrawn) <= Len(claimed)
        /\ \A i \in 1..Len(LabelsDrawn) : LabelsDrawn[i] = claimed[i]

\* draw_to92_package numbered the pins of a device whose spec lists
\* pin_labels.
C20_To92Numbers ==
  /\ call.op = "draw_to92_package"
  /\ getattr(call.args.spec, "pin_labels", <<>>)
       = << <<"g">>, <<"d">>, <<"s">> >>
  /\ getattr(call.args.spec, "pin_config", <<>>) = <<>>
  /\ LabelsDrawn = << <<"1">>, <<"2">>, <<"3">> >>

\* The last call was a call of a drawer.
DrawerWasCalled ==
  \/ FamilyDrawerCalled \/ AxialCalled
  \/ call.op \in {"draw_capacitor_disc", "draw_to204_package"}

\* saveState calls minus restoreState calls among the first n canvas calls
\* of the last drawer call.
RECURSIVE OpenSaves(_)
OpenSaves(n) ==
  IF n = 0 THEN 0
  ELSE OpenSaves(n - 1)
       + (IF canvas.ops[n][1] = "saveState" THEN 1
          ELSE IF canvas.ops[n][1] = "restoreState" THEN -1 ELSE 0)

C18_Nested ==
  /\ call.op = "draw_to204_package"
  /\ Len(SelectSeq(canvas.ops, LAMBDA c : c[1] = "saveState")) = 4
  /\ canvas.stack = <<>>

\* The last call drew a two-pin TO-220.
TwoPinTo220Drawn ==
  /\ call.op = "draw_to220_package"
  /\ call.args.pin_count = 2
  /\ ~call.raised

\* Rows of the lead rectangles and of the labels the last call drew.
LeadRows ==
  { canvas.ops[n][3] :
      n \in { m \in 1..Len(canvas.ops) :
                Len(canvas.ops[m]) = 3 /\ canvas.ops[m][1] = "rect" } }

LabelRows ==
  { canvas.ops[n][3] :
      n \in { m \in 1..Len(canvas.ops) :
                Len(canvas.ops[m]) = 3 /\ canvas.ops[m][1] = "drawString" } }

\* C21 as claimed: a two-pin TO-220 has lead rectangles in the two outer
\* rows only, none in the middle row, and its labels are in the outer rows.
C21_AsClaimed ==
  TwoPinTo220Drawn =>
    /\ LeadRows = {-2, 2}
    /\ LabelRows \subseteq {-2, 2}

\* The labels alone: the two labels of a two-pin TO-220 are in the rows of
\* the two full leads, the first in the lower row.
C21_Labels ==
  TwoPinTo220Drawn =>
    /\ LabelRows \subseteq {-2, 2}
    /\ \A n \in 1..Len(canvas.ops) :
         canvas.ops[n][1] = "rect" /\ Len(canvas.ops[n]) = 3
           /\ canvas.ops[n][2] = "lead_tail" => canvas.ops[n][3] \in {-2, 2}

\* A two-pin TO-220 was drawn with a step rectangle in the middle row and
\* both labels written.
C21_StubDrawn ==
  /\ TwoPinTo220Drawn
  /\ \E n \in 1..Len(canvas.ops) : canvas.ops[n] = <<"rect", "lead_step", 0>>
  /\ LabelRows = {-2, 2}

\* Every registration call of the import, in the order the two passes make
\* them.
seeding_calls == full_outline_calls \o current_renderables

\* The calls that register the outline id, and those that register the alias
\* key.
OutlineCalls(id) ==
  { i \in 1..Len(seeding_calls) :
      seeding_calls[i].op = "outline" /\ seeding_calls[i].canonical_id = id }

AliasCalls(key) ==
  { i \in 1..Len(seeding_calls) :
      /\ seeding_calls[i].op = "outline"
      /\ \E n \in 1..Len(seeding_calls[i].aliases) :
           _normalise_alias_key(seeding_calls[i].aliases[n]) = key }

Last(S) == CHOOSE i \in S : \A j \in S : j <= i

\* The ids the first pass registers without a family and the second pass
\* registers again with one.
RegisteredTwice ==
  { id \in DOMAIN OUTLINES :
      /\ \E i \in OutlineCalls(id) : i <= Len(full_outline_calls)
      /\ \E i \in OutlineCalls(id) :
           i > Len(full_outline_calls) /\ seeding_calls[i].family_id # <<>> }

SeededTables == _seed_current_renderables(_seed_full_outline_registry(EmptyTables))

\* C24 as claimed: the passes run in the other order leave the same three
\* tables.
C24_AsClaimed == phase = "reordered" => Tables = SeededTables

\* What the order does not change: the aliases, the variants, and the set of
\* outline ids.
C24_KeysKept ==
  phase = "reordered" =>
    /\ PACKAGE_ALIASES = SeededTables.PACKAGE_ALIASES
    /\ PACKAGE_VARIANTS = SeededTables.PACKAGE_VARIANTS
    /\ DOMAIN OUTLINES = DOMAIN SeededTables.OUTLINES

\* With the full list seeded last, TO-92 has lost its family and resolves as
\* not renderable.
C24_FamilyLost ==
  /\ phase = "reordered"
  /\ "family_id" \notin DOMAIN OUTLINES[<<"T","O","-","9","2">>]
  /\ "family_id" \in DOMAIN SeededTables.OUTLINES[<<"T","O","-","9","2">>]
  /\ pc = "returned" /\ raw_package = <<"T","O","-","9","2">>
  /\ ~result.is_renderable

\* C28: after the import, resolve_package called with a canonical id of the
\* outline table, exactly as it is registered, finds a package.
C28_AsClaimed ==
  /\ phase = "seeded" /\ pc = "returned"
  /\ raw_package \in DOMAIN OUTLINES
  => result.found

\* The ids of the outline table that resolve_package does not find.
C28_Unreachable ==
  /\ phase = "seeded" /\ pc = "returned"
  /\ raw_package \in DOMAIN OUTLINES
  /\ ~result.found
  => raw_package = <<"5","M","M"," ","R","O","U","N","D"," ","T","/","H">>

\* draw_package was called with a raw string that resolves, against the
\* seeded tables, to a renderable package.
RenderableDrawn ==
  /\ Ready /\ pc \in {"returned", "raised"}
  /\ call.op = "draw_package" /\ call.raw # <<>>
  /\ result.found /\ result.is_renderable

\* C29: whenever the resolution is renderable, the resolved family id is a
\* key of FAMILY_DRAWERS and draw_package calls the drawer registered for it.
C29_RenderableHasDrawer ==
  RenderableDrawn =>
    /\ result.family_id # <<>>
    /\ result.family_id[1] \in DOMAIN FAMILY_DRAWERS
    /\ call.invoked = <<FAMILY_DRAWERS[result.family_id[1]]>>

\* A renderable package reached through an alias was dispatched to the drawer
\* of its family, the one registered last.
C29_Witness ==
  /\ RenderableDrawn
  /\ call.raw = <<"L","E","D","5","M","M">>
  /\ result.family_id = <<"led_tht_round">>
  /\ call.invoked = <<"_draw_led_tht_round">>

\* The showPage calls made so far in the render_labels call.
ShowPages == Len(SelectSeq(canvas.ops, LAMBDA c : c[1] = "showPage"))

To204Pins ==
  IF call.args.pin_count < 1 THEN 1
  ELSE IF call.args.pin_count > 15 THEN 15 ELSE call.args.pin_count

To204Labels ==
  _resolve_pin_labels(To204Pins, call.args.spec, call.args.is_body_pin)

BodyLabels == SelectSeq(canvas.ops, LAMBDA c : c[1] = "drawRightString")
RingLabels == SelectSeq(canvas.ops, LAMBDA c : c[1] = "drawCentredString")

\* The TO-204 drawer was called with the body as a pin and a label list that
\* is not empty.
To204BodyPinDrawn ==
  /\ call.op = "draw_to204_package" /\ ~call.raised
  /\ call.args.is_body_pin
  /\ Len(To204Labels) >= 1

\* The first label is written once, beside the mounting hole; lead i (from
\* 0) has label i + 1 on the ring; the leads past the end of the list have
\* none.
BodyAndRingLabels ==
  LET left == Len(To204Labels) - 1
      labelled == IF left < To204Pins THEN left ELSE To204Pins
  IN  /\ BodyLabels = << <<"drawRightString", upper(To204Labels[1])>> >>
      /\ Len(RingLabels) = labelled
      /\ \A k \in 1..Len(RingLabels) :
           RingLabels[k] = <<"drawCentredString", upper(To204Labels[k + 1]), k - 1>>

\* C27 as claimed: for every call with the body as a pin.
C27_AsClaimed == To204BodyPinDrawn => BodyAndRingLabels

\* The same for the calls on a rectangle of positive width and height.
C27_BodyLabel ==
  (To204BodyPinDrawn /\ call.args.rect.width > 0 /\ call.args.rect.height > 0)
    => BodyAndRingLabels

\* Three leads and the labels g, d, s: G beside the mounting hole, D and S at
\* the first two leads, the third lead without a label.
C27_Witness ==
  /\ To204BodyPinDrawn
  /\ call.args.rect.width > 0 /\ call.args.rect.height > 0
  /\ To204Pins = 3
  /\ To204Labels = << <<"g">>, <<"d">>, <<"s">> >>
  /\ BodyLabels = << <<"drawRightString", <<"G">> >> >>
  /\ RingLabels = << <<"drawCentredString", <<"D">>, 0>>,
                     <<"drawCentredString", <<"S">>, 1>> >>

\* On a rectangle without height the pins lie on the centre and no lead is
\* labelled, while the body label is written.
C27_Degenerate ==
  /\ To204BodyPinDrawn
  /\ call.args.rect.height = 0
  /\ Len(To204Labels) = 3
  /\ Len(BodyLabels) = 1 /\ RingLabels = <<>>

\* C25 as claimed: _v_dot(a, b) is a.x * b.x + a.y * b.y.
C25_AsClaimed ==
  call.op = "_v_dot" =>
    call.out = pmul(call.args.a[1], call.args.b[1])
                 + pmul(call.args.a[2], call.args.b[2])

\* What the code returns: a.x * a.x + a.y * b.y, which b's x component does
\* not enter.
C25_AsCoded ==
  call.op = "_v_dot" =>
    call.out = pmul(call.args.a[1], call.args.a[1])
                 + pmul(call.args.a[2], call.args.b[2])

\* Two vectors at a right angle whose product is returned as 1.
C25_RightAngle ==
  /\ call.op = "_v_dot"
  /\ call.args.a = <<1000, 0>> /\ call.args.b = <<0, 1000>>
  /\ call.out = 1000

\* The outline routine was called; its centre, its two side corners, the
\* clamped radius of the centre arc, and whether a tangent from a side corner
\* to that arc exists.
OutlineBuilt == call.op = "_build_to3_outline_path"
OutlineCentre == <<call.args.cx, call.args.cy>>
LeftCorner == <<call.args.cx - call.args.tip_dy, call.args.cy>>
RightCorner == <<call.args.cx + call.args.tip_dy, call.args.cy>>
ClampedArcRadius ==
  clamp_float(call.args.centre_arc_r, 0,
              pmax(call.args.tip_dx, call.args.tip_dy) * 3)

TangentsInfeasible ==
  \/ ClampedArcRadius <= 0
  \/ ClampedArcRadius >= _v_len(_v_sub(LeftCorner, OutlineCentre))
  \/ ClampedArcRadius >= _v_len(_v_sub(RightCorner, OutlineCentre))

\* C22: the outline routine does not raise; when no tangent exists for a
\* side corner it returns the diamond (moveTo, three lineTo, close) through
\* the four corners; otherwise its path starts with moveTo at the upper
\* tangent point of the left corner and ends with lineTo to that point and
\* close.
C22_OutlinePath ==
  OutlineBuilt =>
    LET path == call.out
        n == Len(path)
        left_upper == _tangent_points_from_external_point_to_circle(
                        LeftCorner, OutlineCentre, ClampedArcRadius).out[1][1]
    IN  /\ call.raised = ""
        /\ TangentsInfeasible =>
             path = << <<"moveTo", LeftCorner[1], LeftCorner[2]>>,
                       <<"lineTo", call.args.cx, call.args.cy + call.args.tip_dx>>,
                       <<"lineTo", RightCorner[1], RightCorner[2]>>,
                       <<"lineTo", call.args.cx, call.args.cy - call.args.tip_dx>>,
                       <<"close">> >>
        /\ ~TangentsInfeasible =>
             /\ n >= 8
             /\ path[1] = <<"moveTo", left_upper[1], left_upper[2]>>
             /\ path[n - 1] = <<"lineTo", left_upper[1], left_upper[2]>>
             /\ path[n] = <<"close">>

\* An outline with both centre arcs and both corner fillets, closed at the
\* point it started from, which is not a corner of the diamond.
C22_Witness ==
  /\ OutlineBuilt /\ ~TangentsInfeasible
  /\ Len(call.out) = 12
  /\ call.out[1][1] = "moveTo"
  /\ <<call.out[1][2], call.out[1][3]>> # LeftCorner
  /\ <<call.out[11][2], call.out[11][3]>> = <<call.out[1][2], call.out[1][3]>>

\* The fallback: an arc radius of at least the distance to the centre, and
\* the diamond returned.
C22_Fallback ==
  /\ OutlineBuilt /\ call.raised = ""
  /\ call.args.tip_dy > 0 /\ ClampedArcRadius >= call.args.tip_dy
  /\ Len(call.out) = 5

\* The fillet routine was called; the cosine of the angle between the two
\* segments that meet in the corner, as the product of their unit vectors.
FilletCalled == call.op = "_fillet_arc_for_corner"

CornerCosine ==
  LET v1 == _v_unit(_v_sub(call.args.prev_pt, call.args.corner_pt))
      v2 == _v_unit(_v_sub(call.args.next_pt, call.args.corner_pt))
  IN  pmul(v1[1], v2[1]) + pmul(v1[2], v2[2])

SegmentMissing ==
  \/ _v_len(_v_sub(call.args.prev_pt, call.args.corner_pt)) = 0
  \/ _v_len(_v_sub(call.args.next_pt, call.args.corner_pt)) = 0

TangentCalled == call.op = "_tangent_points_from_external_point_to_circle"

\* C26 as claimed: neither routine raises; the fillet routine returns None
\* for a radius of at most 0.01, for a missing segment and for a corner angle
\* of at most 2 or at least 178 degrees; the tangent routine returns None
\* for a point inside or on the circle.
C26_AsClaimed ==
  /\ FilletCalled =>
       /\ call.raised = ""
       /\ (\/ call.args.radius <= 10
           \/ SegmentMissing
           \/ CornerCosine >= 1000
           \/ CornerCosine <= -1000) => call.out = <<>>
  /\ TangentCalled =>
       /\ call.raised = ""
       /\ _v_len(_v_sub(call.args.point, call.args.circle_centre))
            <= call.args.circle_r => call.out = <<>>

\* What holds: no call raises, and the cases that do not go through the
\* angle return None.
C26_NoException ==
  /\ FilletCalled =>
       /\ call.raised = ""
       /\ (call.args.radius <= 10 \/ SegmentMissing) => call.out = <<>>
  /\ TangentCalled =>
       /\ call.raised = ""
       /\ _v_len(_v_sub(call.args.point, call.args.circle_centre))
            <= call.args.circle_r => call.out = <<>>

\* A corner on a straight line (an angle of 180 degrees) for which a fillet
\* is returned, centred on the corner itself.
C26_StraightCorner ==
  /\ FilletCalled
  /\ call.args.prev_pt = <<-3000, -4000>> /\ call.args.corner_pt = <<0, 0>>
  /\ call.args.next_pt = <<3000, 4000>> /\ call.args.radius = 1000
  /\ CornerCosine = -1000
  /\ call.out = << << <<-450, -600>>, <<450, 600>>, <<0, 0>> >> >>

====
